---------------------------- MODULE Spec2Model ----------------------------
(***************************************************************************)
(* Model of the raster export of github.com/SCKelemen/svg (export.go).     *)
(*                                                                         *)
(* Go strings whose bytes the code inspects (attribute values, colour      *)
(* tokens, format names) are sequences of bytes: "10px" is                 *)
(* <<"1","0","p","x">>, and a byte that is not a printable ASCII character *)
(* is named by its value, "xC3" for 0xC3.  Strings the code only compares  *)
(* as a whole (tag names, attribute names, format constants, error         *)
(* messages) are TLA+ strings.                                             *)
(*                                                                         *)
(* goarch is the architecture of the build.  Two results depend on it:     *)
(* int(val) of a float64 that no int holds (parseLength), and the rounding *)
(* of cx + radius*cos(angle) in drawCircle, which arm64 fuses into one     *)
(* multiply-add.  Each behaviour starts with either build and keeps it.    *)
(***************************************************************************)
EXTENDS Integers, Sequences, FiniteSets, TLC

VARIABLES
    calls,   \* Export calls in progress: call id -> the call's local state
    unit,    \* one call of a helper function: [fn, arg, done, ret]
    goarch   \* the architecture the program is built for

vars == <<calls, unit, goarch>>

Nil == "nil"

(***************************************************************************)
(* strings, unicode/utf8, strconv                                          *)
(***************************************************************************)

Min2(a, b) == IF a < b THEN a ELSE b
Max2(a, b) == IF a > b THEN a ELSE b

\* position of c in the sequence t, 0 when absent
IndexOf(t, c) ==
    IF \E i \in 1..Len(t) : t[i] = c
    THEN CHOOSE i \in 1..Len(t) : t[i] = c
    ELSE 0

\* the 256 bytes, in order of their value: Bytes[v + 1] is the byte v
Bytes ==
    <<"x00", "x01", "x02", "x03", "x04", "x05", "x06", "x07", "x08", "\t", "\n", "x0B", "\f", "\r", "x0E", "x0F",
      "x10", "x11", "x12", "x13", "x14", "x15", "x16", "x17", "x18", "x19", "x1A", "x1B", "x1C", "x1D", "x1E", "x1F",
      " ", "!", "\"", "#", "$", "%", "&", "'", "(", ")", "*", "+", ",", "-", ".", "/",
      "0", "1", "2", "3", "4", "5", "6", "7", "8", "9", ":", ";", "<", "=", ">", "?",
      "@", "A", "B", "C", "D", "E", "F", "G", "H", "I", "J", "K", "L", "M", "N", "O",
      "P", "Q", "R", "S", "T", "U", "V", "W", "X", "Y", "Z", "[", "\\", "]", "^", "_",
      "x60", "a", "b", "c", "d", "e", "f", "g", "h", "i", "j", "k", "l", "m", "n", "o",
      "p", "q", "r", "s", "t", "u", "v", "w", "x", "y", "z", "{", "|", "}", "~", "x7F",
      "x80", "x81", "x82", "x83", "x84", "x85", "x86", "x87", "x88", "x89", "x8A", "x8B", "x8C", "x8D", "x8E", "x8F",
      "x90", "x91", "x92", "x93", "x94", "x95", "x96", "x97", "x98", "x99", "x9A", "x9B", "x9C", "x9D", "x9E", "x9F",
      "xA0", "xA1", "xA2", "xA3", "xA4", "xA5", "xA6", "xA7", "xA8", "xA9", "xAA", "xAB", "xAC", "xAD", "xAE", "xAF",
      "xB0", "xB1", "xB2", "xB3", "xB4", "xB5", "xB6", "xB7", "xB8", "xB9", "xBA", "xBB", "xBC", "xBD", "xBE", "xBF",
      "xC0", "xC1", "xC2", "xC3", "xC4", "xC5", "xC6", "xC7", "xC8", "xC9", "xCA", "xCB", "xCC", "xCD", "xCE", "xCF",
      "xD0", "xD1", "xD2", "xD3", "xD4", "xD5", "xD6", "xD7", "xD8", "xD9", "xDA", "xDB", "xDC", "xDD", "xDE", "xDF",
      "xE0", "xE1", "xE2", "xE3", "xE4", "xE5", "xE6", "xE7", "xE8", "xE9", "xEA", "xEB", "xEC", "xED", "xEE", "xEF",
      "xF0", "xF1", "xF2", "xF3", "xF4", "xF5", "xF6", "xF7", "xF8", "xF9", "xFA", "xFB", "xFC", "xFD", "xFE", "xFF">>

\* the value of a byte, and the byte of a value
ByteVals == [b \in {Bytes[k] : k \in 1..256} |-> IndexOf(Bytes, b) - 1]
ByteVal(b) == ByteVals[b]
Byte(v) == Bytes[v + 1]

Drop(s, n) == SubSeq(s, n + 1, Len(s))

\* utf8.RuneError
RuneError == 65533

\* byte k of s exists and lies in lo..hi
byteIn(s, k, lo, hi) == k <= Len(s) /\ ByteVal(s[k]) >= lo /\ ByteVal(s[k]) <= hi

\* the low six bits of the continuation byte k of s
contBits(s, k) == ByteVal(s[k]) - 128

\* utf8.DecodeRuneInString for a string whose first byte is b0: the rune and
\* its width; an invalid or short encoding is (RuneError, 1)
decodeFirst(s, b0) ==
    CASE b0 < 128 -> [r |-> b0, size |-> 1]
      [] /\ b0 >= 194 /\ b0 <= 223
         /\ byteIn(s, 2, 128, 191) ->
            [r |-> (b0 - 192) * 64 + contBits(s, 2), size |-> 2]
      [] /\ b0 >= 224 /\ b0 <= 239
         /\ byteIn(s, 2, IF b0 = 224 THEN 160 ELSE 128, IF b0 = 237 THEN 159 ELSE 191)
         /\ byteIn(s, 3, 128, 191) ->
            [r |-> (b0 - 224) * 4096 + contBits(s, 2) * 64 + contBits(s, 3),
             size |-> 3]
      [] /\ b0 >= 240 /\ b0 <= 244
         /\ byteIn(s, 2, IF b0 = 240 THEN 144 ELSE 128, IF b0 = 244 THEN 143 ELSE 191)
         /\ byteIn(s, 3, 128, 191)
         /\ byteIn(s, 4, 128, 191) ->
            [r |-> (b0 - 240) * 262144 + contBits(s, 2) * 4096
                   + contBits(s, 3) * 64 + contBits(s, 4),
             size |-> 4]
      [] OTHER -> [r |-> RuneError, size |-> 1]

\* utf8.DecodeRuneInString
DecodeRune(s) ==
    IF s = <<>> THEN [r |-> RuneError, size |-> 0]
    ELSE decodeFirst(s, ByteVal(s[1]))

\* DecodeLastRuneInString looks for the start of the last rune among the
\* four last bytes: the number of bytes before that start
lastRuneStart(s) ==
    IF \E t \in Max2(Len(s) - 4, 0)..(Len(s) - 2) : ~byteIn(s, t + 1, 128, 191)
    THEN CHOOSE t \in Max2(Len(s) - 4, 0)..(Len(s) - 2) :
            /\ ~byteIn(s, t + 1, 128, 191)
            /\ \A u \in (t + 1)..(Len(s) - 2) : byteIn(s, u + 1, 128, 191)
    ELSE Max2(Max2(Len(s) - 4, 0) - 1, 0)

\* the rune decoded from the start found, when it ends where s ends
decodeLastFrom(s, start) ==
    IF start + DecodeRune(Drop(s, start)).size = Len(s)
    THEN DecodeRune(Drop(s, start))
    ELSE [r |-> RuneError, size |-> 1]

\* utf8.DecodeLastRuneInString
DecodeLastRune(s) ==
    IF s = <<>> THEN [r |-> RuneError, size |-> 0]
    ELSE IF ByteVal(s[Len(s)]) < 128 THEN [r |-> ByteVal(s[Len(s)]), size |-> 1]
    ELSE decodeLastFrom(s, lastRuneStart(s))

\* utf8.EncodeRune, for the runes decoding gives
EncodeRune(r) ==
    CASE r < 128   -> <<Byte(r)>>
      [] r >= 128 /\ r < 2048 -> <<Byte(192 + r \div 64), Byte(128 + (r % 64))>>
      [] r >= 2048 /\ r < 65536 ->
            <<Byte(224 + r \div 4096), Byte(128 + ((r \div 64) % 64)),
              Byte(128 + (r % 64))>>
      [] OTHER ->
            <<Byte(240 + r \div 262144), Byte(128 + ((r \div 4096) % 64)),
              Byte(128 + ((r \div 64) % 64)), Byte(128 + (r % 64))>>

\* unicode.IsSpace: '\t', '\n', '\v', '\f', '\r', ' ', U+0085, U+00A0 in
\* Latin-1, the White_Space property above it
IsSpace(r) ==
    \/ r >= 9 /\ r <= 13
    \/ r \in {32, 133, 160, 5760, 8232, 8233, 8239, 8287, 12288}
    \/ r >= 8192 /\ r <= 8202

\* strings.TrimLeftFunc(s, unicode.IsSpace)
RECURSIVE TrimLeft(_)
TrimLeft(s) ==
    IF s # <<>> /\ IsSpace(DecodeRune(s).r)
    THEN TrimLeft(Drop(s, DecodeRune(s).size))
    ELSE s

\* strings.TrimRightFunc(s, unicode.IsSpace)
RECURSIVE TrimRight(_)
TrimRight(s) ==
    IF s # <<>> /\ IsSpace(DecodeLastRune(s).r)
    THEN TrimRight(SubSeq(s, 1, Len(s) - DecodeLastRune(s).size))
    ELSE s

\* strings.TrimSpace
TrimSpace(s) == TrimRight(TrimLeft(s))

\* strings.HasPrefix
HasPrefix(s, p) == Len(s) >= Len(p) /\ SubSeq(s, 1, Len(p)) = p

\* strings.HasSuffix
HasSuffix(s, p) ==
    Len(s) >= Len(p) /\ SubSeq(s, Len(s) - Len(p) + 1, Len(s)) = p

\* strings.TrimPrefix
TrimPrefix(s, p) == IF HasPrefix(s, p) THEN Drop(s, Len(p)) ELSE s

\* strings.TrimSuffix: removes the suffix once
TrimSuffix(s, p) ==
    IF HasSuffix(s, p) THEN SubSeq(s, 1, Len(s) - Len(p)) ELSE s

UpperLetters ==
    <<"A","B","C","D","E","F","G","H","I","J","K","L","M",
      "N","O","P","Q","R","S","T","U","V","W","X","Y","Z">>

LowerLetters ==
    <<"a","b","c","d","e","f","g","h","i","j","k","l","m",
      "n","o","p","q","r","s","t","u","v","w","x","y","z">>

\* the upper-case runes above ASCII and their lower case (Unicode 14):
\* <<lo, hi, step, delta>> maps lo, lo + step, ..., hi to themselves + delta
lowerRanges ==
    <<<<192, 214, 1, 32>>, <<216, 222, 1, 32>>, <<256, 302, 2, 1>>, <<304, 304, 1, -199>>,
      <<306, 310, 2, 1>>, <<313, 327, 2, 1>>, <<330, 374, 2, 1>>, <<376, 376, 1, -121>>,
      <<377, 381, 2, 1>>, <<385, 385, 1, 210>>, <<386, 388, 2, 1>>, <<390, 390, 1, 206>>,
      <<391, 391, 1, 1>>, <<393, 394, 1, 205>>, <<395, 395, 1, 1>>, <<398, 398, 1, 79>>,
      <<399, 399, 1, 202>>, <<400, 400, 1, 203>>, <<401, 401, 1, 1>>, <<403, 403, 1, 205>>,
      <<404, 404, 1, 207>>, <<406, 406, 1, 211>>, <<407, 407, 1, 209>>, <<408, 408, 1, 1>>,
      <<412, 412, 1, 211>>, <<413, 413, 1, 213>>, <<415, 415, 1, 214>>, <<416, 420, 2, 1>>,
      <<422, 422, 1, 218>>, <<423, 423, 1, 1>>, <<425, 425, 1, 218>>, <<428, 428, 1, 1>>,
      <<430, 430, 1, 218>>, <<431, 431, 1, 1>>, <<433, 434, 1, 217>>, <<435, 437, 2, 1>>,
      <<439, 439, 1, 219>>, <<440, 440, 1, 1>>, <<444, 444, 1, 1>>, <<452, 452, 1, 2>>,
      <<453, 453, 1, 1>>, <<455, 455, 1, 2>>, <<456, 456, 1, 1>>, <<458, 458, 1, 2>>,
      <<459, 475, 2, 1>>, <<478, 494, 2, 1>>, <<497, 497, 1, 2>>, <<498, 500, 2, 1>>,
      <<502, 502, 1, -97>>, <<503, 503, 1, -56>>, <<504, 542, 2, 1>>, <<544, 544, 1, -130>>,
      <<546, 562, 2, 1>>, <<570, 570, 1, 10795>>, <<571, 571, 1, 1>>, <<573, 573, 1, -163>>,
      <<574, 574, 1, 10792>>, <<577, 577, 1, 1>>, <<579, 579, 1, -195>>, <<580, 580, 1, 69>>,
      <<581, 581, 1, 71>>, <<582, 590, 2, 1>>, <<880, 882, 2, 1>>, <<886, 886, 1, 1>>,
      <<895, 895, 1, 116>>, <<902, 902, 1, 38>>, <<904, 906, 1, 37>>, <<908, 908, 1, 64>>,
      <<910, 911, 1, 63>>, <<913, 929, 1, 32>>, <<931, 939, 1, 32>>, <<975, 975, 1, 8>>,
      <<984, 1006, 2, 1>>, <<1012, 1012, 1, -60>>, <<1015, 1015, 1, 1>>, <<1017, 1017, 1, -7>>,
      <<1018, 1018, 1, 1>>, <<1021, 1023, 1, -130>>, <<1024, 1039, 1, 80>>, <<1040, 1071, 1, 32>>,
      <<1120, 1152, 2, 1>>, <<1162, 1214, 2, 1>>, <<1216, 1216, 1, 15>>, <<1217, 1229, 2, 1>>,
      <<1232, 1326, 2, 1>>, <<1329, 1366, 1, 48>>, <<4256, 4293, 1, 7264>>, <<4295, 4295, 1, 7264>>,
      <<4301, 4301, 1, 7264>>, <<5024, 5103, 1, 38864>>, <<5104, 5109, 1, 8>>, <<7312, 7354, 1, -3008>>,
      <<7357, 7359, 1, -3008>>, <<7680, 7828, 2, 1>>, <<7838, 7838, 1, -7615>>, <<7840, 7934, 2, 1>>,
      <<7944, 7951, 1, -8>>, <<7960, 7965, 1, -8>>, <<7976, 7983, 1, -8>>, <<7992, 7999, 1, -8>>,
      <<8008, 8013, 1, -8>>, <<8025, 8031, 2, -8>>, <<8040, 8047, 1, -8>>, <<8072, 8079, 1, -8>>,
      <<8088, 8095, 1, -8>>, <<8104, 8111, 1, -8>>, <<8120, 8121, 1, -8>>, <<8122, 8123, 1, -74>>,
      <<8124, 8124, 1, -9>>, <<8136, 8139, 1, -86>>, <<8140, 8140, 1, -9>>, <<8152, 8153, 1, -8>>,
      <<8154, 8155, 1, -100>>, <<8168, 8169, 1, -8>>, <<8170, 8171, 1, -112>>, <<8172, 8172, 1, -7>>,
      <<8184, 8185, 1, -128>>, <<8186, 8187, 1, -126>>, <<8188, 8188, 1, -9>>, <<8486, 8486, 1, -7517>>,
      <<8490, 8490, 1, -8383>>, <<8491, 8491, 1, -8262>>, <<8498, 8498, 1, 28>>, <<8544, 8559, 1, 16>>,
      <<8579, 8579, 1, 1>>, <<9398, 9423, 1, 26>>, <<11264, 11311, 1, 48>>, <<11360, 11360, 1, 1>>,
      <<11362, 11362, 1, -10743>>, <<11363, 11363, 1, -3814>>, <<11364, 11364, 1, -10727>>, <<11367, 11371, 2, 1>>,
      <<11373, 11373, 1, -10780>>, <<11374, 11374, 1, -10749>>, <<11375, 11375, 1, -10783>>, <<11376, 11376, 1, -10782>>,
      <<11378, 11378, 1, 1>>, <<11381, 11381, 1, 1>>, <<11390, 11391, 1, -10815>>, <<11392, 11490, 2, 1>>,
      <<11499, 11501, 2, 1>>, <<11506, 11506, 1, 1>>, <<42560, 42604, 2, 1>>, <<42624, 42650, 2, 1>>,
      <<42786, 42798, 2, 1>>, <<42802, 42862, 2, 1>>, <<42873, 42875, 2, 1>>, <<42877, 42877, 1, -35332>>,
      <<42878, 42886, 2, 1>>, <<42891, 42891, 1, 1>>, <<42893, 42893, 1, -42280>>, <<42896, 42898, 2, 1>>,
      <<42902, 42920, 2, 1>>, <<42922, 42922, 1, -42308>>, <<42923, 42923, 1, -42319>>, <<42924, 42924, 1, -42315>>,
      <<42925, 42925, 1, -42305>>, <<42926, 42926, 1, -42308>>, <<42928, 42928, 1, -42258>>, <<42929, 42929, 1, -42282>>,
      <<42930, 42930, 1, -42261>>, <<42931, 42931, 1, 928>>, <<42932, 42946, 2, 1>>, <<42948, 42948, 1, -48>>,
      <<42949, 42949, 1, -42307>>, <<42950, 42950, 1, -35384>>, <<42951, 42953, 2, 1>>, <<42960, 42960, 1, 1>>,
      <<42966, 42968, 2, 1>>, <<42997, 42997, 1, 1>>, <<65313, 65338, 1, 32>>, <<66560, 66599, 1, 40>>,
      <<66736, 66771, 1, 40>>, <<66928, 66938, 1, 39>>, <<66940, 66954, 1, 39>>, <<66956, 66962, 1, 39>>,
      <<66964, 66965, 1, 39>>, <<68736, 68786, 1, 64>>, <<71840, 71871, 1, 32>>, <<93760, 93791, 1, 32>>,
      <<125184, 125217, 1, 34>>>>

inLowerRange(r, k) ==
    /\ r >= lowerRanges[k][1] /\ r <= lowerRanges[k][2]
    /\ (r - lowerRanges[k][1]) % lowerRanges[k][3] = 0

\* unicode.ToLower of one rune
LowerChar(r) ==
    IF r < 128 THEN (IF r >= 65 /\ r <= 90 THEN r + 32 ELSE r)
    ELSE IF \E k \in DOMAIN lowerRanges : inLowerRange(r, k)
    THEN r + lowerRanges[CHOOSE k \in DOMAIN lowerRanges : inLowerRange(r, k)][4]
    ELSE r

\* strings.ToLower: every rune mapped and encoded again, a byte that is no
\* valid encoding becoming U+FFFD
RECURSIVE ToLower(_)
ToLower(s) ==
    IF s = <<>> THEN <<>>
    ELSE EncodeRune(LowerChar(DecodeRune(s).r)) \o ToLower(Drop(s, DecodeRune(s).size))

\* the first space-separated field of s, which starts with a non-space
RECURSIVE firstField(_)
firstField(s) ==
    IF s = <<>> \/ IsSpace(DecodeRune(s).r) THEN <<>>
    ELSE SubSeq(s, 1, DecodeRune(s).size) \o firstField(Drop(s, DecodeRune(s).size))

\* strings.Fields: the maximal runs of non-space characters
RECURSIVE fieldsOf(_)
fieldsOf(t) ==
    IF t = <<>> THEN <<>>
    ELSE <<firstField(t)>> \o fieldsOf(TrimLeft(Drop(t, Len(firstField(t)))))

Fields(s) == fieldsOf(TrimLeft(s))

\* strconv's lower(c) = c | ('x' - 'X'), on the value of a byte
lower(v) == IF (v \div 32) % 2 = 0 THEN v + 32 ELSE v

\* '0' <= c && c <= '9'
IsDigit(c) == ByteVal(c) >= 48 /\ ByteVal(c) <= 57

\* 'a' <= lower(c) && lower(c) <= 'f'
IsHexLetter(c) == lower(ByteVal(c)) >= 97 /\ lower(ByteVal(c)) <= 102

IsHexDigit(c) == IsDigit(c) \/ IsHexLetter(c)

HexVal(c) == IF IsDigit(c) THEN ByteVal(c) - 48 ELSE lower(ByteVal(c)) - 97 + 10

RECURSIVE Pow(_, _)
Pow(b, n) ==
    IF n = 0 THEN 1
    ELSE IF n % 2 = 0 THEN Pow(b * b, n \div 2)
    ELSE b * Pow(b * b, n \div 2)

\* value of a run of digits in the given base (0 for the empty run)
RECURSIVE DigitsVal(_, _)
DigitsVal(s, base) ==
    IF s = <<>> THEN 0
    ELSE DigitsVal(SubSeq(s, 1, Len(s) - 1), base) * base + HexVal(s[Len(s)])

\* strconv.ParseUint(s, 16, 8): no sign, no prefix, no underscore; every
\* byte a hex digit, the value at most 255
ParseUint16(s) ==
    IF s # <<>> /\ (\A i \in 1..Len(s) : IsHexDigit(s[i])) /\ DigitsVal(s, 16) <= 255
    THEN [ok |-> TRUE, val |-> DigitsVal(s, 16)]
    ELSE [ok |-> FALSE, val |-> 0]

(***************************************************************************)
(* strconv.ParseFloat(s, 64).  The result is [ok, kind, neg, mant, exp10,  *)
(* exp2]: ok is err == nil; kind is "inf", "nan" or "finite", and a finite *)
(* result stands for the float64 nearest to mant * 10^exp10 * 2^exp2       *)
(* (negated when neg), which int(val) below rounds and truncates.  In the  *)
(* scans i is the number of bytes read so far.                             *)
(***************************************************************************)

\* commonPrefixLenIgnoreCase(s, prefix), prefix in lower case
RECURSIVE commonPrefixLenIgnoreCase(_, _)
commonPrefixLenIgnoreCase(s, prefix) ==
    IF s = <<>> \/ prefix = <<>> THEN 0
    ELSE IF (IF s[1] \in {UpperLetters[k] : k \in 1..26}
             THEN LowerLetters[IndexOf(UpperLetters, s[1])]
             ELSE s[1]) = prefix[1]
    THEN 1 + commonPrefixLenIgnoreCase(Tail(s), Tail(prefix))
    ELSE 0

\* special: "anything longer than inf is ok, but if we don't have infinity
\* only consume inf"; n is the common prefix with "infinity"
specialInf(n, nsign, neg) ==
    IF n = 8 \/ (n >= 3 /\ n < 8)
    THEN [ok |-> TRUE, n |-> nsign + (IF n = 8 THEN 8 ELSE 3), kind |-> "inf",
          neg |-> neg]
    ELSE [ok |-> FALSE, n |-> 0, kind |-> "", neg |-> FALSE]

\* special returns the floating-point value for the special, possibly signed
\* floating-point representations inf, infinity, and NaN
special(s) ==
    CASE s # <<>> /\ s[1] \in {"+", "-"} ->
            specialInf(commonPrefixLenIgnoreCase(Tail(s),
                           <<"i","n","f","i","n","i","t","y">>), 1, s[1] = "-")
      [] s # <<>> /\ s[1] \in {"i", "I"} ->
            specialInf(commonPrefixLenIgnoreCase(s,
                           <<"i","n","f","i","n","i","t","y">>), 0, FALSE)
      [] /\ s # <<>> /\ s[1] \in {"n", "N"}
         /\ commonPrefixLenIgnoreCase(s, <<"n","a","n">>) = 3 ->
            [ok |-> TRUE, n |-> 3, kind |-> "nan", neg |-> FALSE]
      [] OTHER -> [ok |-> FALSE, n |-> 0, kind |-> "", neg |-> FALSE]

\* readFloat, the loop over the mantissa.  st is [i, sawdot, sawdigits, nd,
\* dp, mantissa, underscores]; mantissa holds every digit (the code keeps 19
\* and a flag for the rest, and reads the others again when they matter)
RECURSIVE readMantissa(_, _, _)
readMantissa(s, base, st) ==
    IF st.i >= Len(s) THEN st
    ELSE CASE s[st.i + 1] = "_" ->
                readMantissa(s, base, [st EXCEPT !.i = @ + 1, !.underscores = TRUE])
           [] s[st.i + 1] = "." /\ ~st.sawdot ->
                readMantissa(s, base, [st EXCEPT !.i = @ + 1, !.sawdot = TRUE,
                                                 !.dp = st.nd])
           [] s[st.i + 1] = "0" /\ st.nd = 0 ->
                readMantissa(s, base, [st EXCEPT !.i = @ + 1, !.sawdigits = TRUE,
                                                 !.dp = @ - 1])
           [] IsDigit(s[st.i + 1]) /\ ~(s[st.i + 1] = "0" /\ st.nd = 0) ->
                readMantissa(s, base,
                    [st EXCEPT !.i = @ + 1, !.sawdigits = TRUE, !.nd = @ + 1,
                               !.mantissa = @ * base + HexVal(s[st.i + 1])])
           [] base = 16 /\ IsHexLetter(s[st.i + 1]) ->
                readMantissa(s, base,
                    [st EXCEPT !.i = @ + 1, !.sawdigits = TRUE, !.nd = @ + 1,
                               !.mantissa = @ * base + HexVal(s[st.i + 1])])
           [] OTHER -> st

\* readFloat, the loop over the exponent's digits.  st is [i, e,
\* underscores]: if e < 10000 { e = e*10 + int(s[i]) - '0' }
RECURSIVE readExpDigits(_, _)
readExpDigits(s, st) ==
    IF st.i >= Len(s) THEN st
    ELSE IF s[st.i + 1] = "_"
    THEN readExpDigits(s, [st EXCEPT !.i = @ + 1, !.underscores = TRUE])
    ELSE IF IsDigit(s[st.i + 1])
    THEN readExpDigits(s, [st EXCEPT !.i = @ + 1,
                                     !.e = IF @ < 10000
                                           THEN @ * 10 + HexVal(s[st.i + 1])
                                           ELSE @])
    ELSE st

\* readFloat, "optional exponent moves decimal point": i bytes are read, j
\* is where the exponent's digits start.  A hexadecimal mantissa must have
\* an exponent.
readExponentAt(s, i, j) ==
    IF j < Len(s) /\ IsDigit(s[j + 1])
    THEN [ok |-> TRUE,
          i  |-> readExpDigits(s, [i |-> j, e |-> 0, underscores |-> FALSE]).i,
          e  |-> IF s[i + 2] = "-"
                 THEN 0 - readExpDigits(s, [i |-> j, e |-> 0, underscores |-> FALSE]).e
                 ELSE readExpDigits(s, [i |-> j, e |-> 0, underscores |-> FALSE]).e,
          underscores |->
              readExpDigits(s, [i |-> j, e |-> 0, underscores |-> FALSE]).underscores]
    ELSE [ok |-> FALSE, i |-> j, e |-> 0, underscores |-> FALSE]

readExponent(s, hex, i) ==
    IF i < Len(s) /\ lower(ByteVal(s[i + 1])) = (IF hex THEN 112 ELSE 101)
    THEN readExponentAt(s, i,
             IF i + 1 < Len(s) /\ s[i + 2] \in {"+", "-"} THEN i + 2 ELSE i + 1)
    ELSE [ok |-> ~hex, i |-> i, e |-> 0, underscores |-> FALSE]

\* underscoreOK, the loop: saw is the last character seen, "^" for the
\* beginning, "0" for a digit or the base prefix, "_" for an underscore,
\* "!" for none of the above
RECURSIVE underscoreScan(_, _, _, _)
underscoreScan(s, i, hex, saw) ==
    IF i >= Len(s) THEN saw # "_"
    ELSE IF IsDigit(s[i + 1]) \/ (hex /\ IsHexLetter(s[i + 1]))
    THEN underscoreScan(s, i + 1, hex, "0")
    ELSE IF s[i + 1] = "_"
    THEN saw = "0" /\ underscoreScan(s, i + 1, hex, "_")
    ELSE saw # "_" /\ underscoreScan(s, i + 1, hex, "!")

\* underscoreOK after the optional sign
underscoreOKUnsigned(s) ==
    IF Len(s) >= 2 /\ s[1] = "0" /\ lower(ByteVal(s[2])) \in {98, 111, 120}
    THEN underscoreScan(s, 2, lower(ByteVal(s[2])) = 120, "0")
    ELSE underscoreScan(s, 0, FALSE, "^")

\* underscoreOK reports whether the underscores in s are allowed
underscoreOK(s) ==
    underscoreOKUnsigned(IF s # <<>> /\ s[1] \in {"+", "-"} THEN Tail(s) ELSE s)

\* readFloat once mantissa (m) and exponent (x) are read: [ok, n, neg, hex,
\* mantissa, exp], the value mantissa * base^exp with base 2 when hex
readFloatResult(s, neg, hex, m, x) ==
    [ok  |-> /\ m.sawdigits
             /\ x.ok
             /\ ((m.underscores \/ x.underscores) => underscoreOK(SubSeq(s, 1, x.i))),
     n   |-> x.i,
     neg |-> neg,
     hex |-> hex,
     mantissa |-> m.mantissa,
     exp |-> (IF hex THEN 4 ELSE 1) * ((IF m.sawdot THEN m.dp ELSE m.nd) - m.nd) + x.e]

readFloatExponent(s, neg, hex, m) ==
    readFloatResult(s, neg, hex, m,
        IF m.sawdigits THEN readExponent(s, hex, m.i)
        ELSE [ok |-> FALSE, i |-> m.i, e |-> 0, underscores |-> FALSE])

\* readFloat after the optional sign, i the bytes read (0 or 1)
readFloatUnsigned(s, neg, i, hex) ==
    readFloatExponent(s, neg, hex,
        readMantissa(s, IF hex THEN 16 ELSE 10,
                     [i |-> IF hex THEN i + 2 ELSE i, sawdot |-> FALSE,
                      sawdigits |-> FALSE, nd |-> 0, dp |-> 0, mantissa |-> 0,
                      underscores |-> FALSE]))

\* readFloat reads a decimal or hexadecimal mantissa and exponent from a
\* float string representation
readFloat(s) ==
    IF s # <<>> /\ s[1] \in {"+", "-"}
    THEN readFloatUnsigned(s, s[1] = "-", 1,
             3 < Len(s) /\ s[2] = "0" /\ lower(ByteVal(s[3])) = 120)
    ELSE readFloatUnsigned(s, FALSE, 0,
             2 < Len(s) /\ s[1] = "0" /\ lower(ByteVal(s[2])) = 120)

\* number of binary and of decimal digits of n >= 0 (0 for 0)
RECURSIVE bitLen(_)
bitLen(n) ==
    IF n >= 65536 THEN 16 + bitLen(n \div 65536)
    ELSE IF n >= 256 THEN 8 + bitLen(n \div 256)
    ELSE IF n >= 16 THEN 4 + bitLen(n \div 16)
    ELSE IF n >= 4 THEN 2 + bitLen(n \div 4)
    ELSE IF n >= 2 THEN 2
    ELSE n

RECURSIVE decLen(_)
decLen(n) == IF n = 0 THEN 0 ELSE 1 + decLen(n \div 10)

\* num / den is the magnitude mant * 10^exp10 * 2^exp2
numerator(f) == f.mant * Pow(10, Max2(f.exp10, 0)) * Pow(2, Max2(f.exp2, 0))
denominator(f) == Pow(10, Max2(0 - f.exp10, 0)) * Pow(2, Max2(0 - f.exp2, 0))

\* the digits before the point: the magnitude lies in
\* [base^(magnitudeLen - 1), base^magnitudeLen), base 10 or, for a hex
\* float, 2
magnitudeLen(f, hex) ==
    IF hex THEN bitLen(f.mant) + f.exp2 ELSE decLen(f.mant) + f.exp10

\* ErrRange: the nearest float64 is infinite, which is from
\* 2^1024 - 2^970 on, halfway between the largest float64 and 2^1024.
\* Below 10^308 (2^1023) it is not, from 10^309 (2^1024) on it is.
overflowsFloat64(f, hex) ==
    /\ f.mant # 0
    /\ magnitudeLen(f, hex) >= (IF hex THEN 1024 ELSE 309)
    /\ \/ magnitudeLen(f, hex) > (IF hex THEN 1024 ELSE 309)
       \/ numerator(f) >= (Pow(2, 1024) - Pow(2, 970)) * denominator(f)

\* ParseFloat for the text readFloat has read
parsedNumber(s, rf) ==
    [ok    |-> /\ rf.ok
               /\ rf.n = Len(s)
               /\ ~overflowsFloat64([mant  |-> rf.mantissa,
                                     exp10 |-> IF rf.hex THEN 0 ELSE rf.exp,
                                     exp2  |-> IF rf.hex THEN rf.exp ELSE 0],
                                    rf.hex),
     kind  |-> "finite",
     neg   |-> rf.neg,
     hex   |-> rf.hex,
     mant  |-> rf.mantissa,
     exp10 |-> IF rf.hex THEN 0 ELSE rf.exp,
     exp2  |-> IF rf.hex THEN rf.exp ELSE 0]

\* ParseFloat for a special: the whole of s has to be read
parsedSpecial(s, sp) ==
    [ok |-> sp.n = Len(s), kind |-> sp.kind, neg |-> sp.neg, hex |-> FALSE,
     mant |-> 0, exp10 |-> 0, exp2 |-> 0]

ParseFloat(s) ==
    IF special(s).ok THEN parsedSpecial(s, special(s))
    ELSE parsedNumber(s, readFloat(s))

\* the builds whose results differ where Go leaves them to the
\* implementation
Builds == {"amd64", "arm64"}

MinInt64 == 0 - Pow(2, 63)
MaxInt64 == Pow(2, 63) - 1

\* int arithmetic: sums and products wrap around
I64(v) ==
    IF (0 - 2147483647) <= v /\ v <= 2147483647 THEN v
    ELSE ((v + Pow(2, 63)) % Pow(2, 64)) - Pow(2, 63)

\* int(val) for a val no int holds: "if the value cannot be represented by
\* the type the result is implementation-dependent".  amd64 gives the
\* smallest int; arm64 saturates, and turns NaN into 0.
intOutOfRange(kind, neg) ==
    CASE goarch = "amd64" -> MinInt64
      [] goarch = "arm64" /\ kind = "nan" -> 0
      [] goarch = "arm64" /\ kind # "nan" /\ neg -> MinInt64
      [] goarch = "arm64" /\ kind # "nan" /\ ~neg -> MaxInt64

\* gap * 2^k <= den
RECURSIVE withinShifted(_, _, _)
withinShifted(gap, den, k) ==
    IF gap > den THEN FALSE
    ELSE IF k = 0 THEN TRUE
    ELSE withinShifted(2 * gap, den, k - 1)

\* num / den rounded to the nearest integer, to the even one of two
roundHalfEven(num, den) ==
    IF \/ 2 * (num % den) > den
       \/ 2 * (num % den) = den /\ (num \div den) % 2 = 1
    THEN num \div den + 1
    ELSE num \div den

\* the integer part of the float64 nearest to num / den, whose own integer
\* part is whole.  Below 2^52 the float64s around whole + 1 are
\* 2^(bitLen(whole) - 53) apart, and num / den rounds up to whole + 1 from
\* half of that below it; from 2^52 on the float64s are integers
\* 2^(bitLen(whole) - 53) apart.
float64Whole(num, den, whole) ==
    IF bitLen(whole) <= 52
    THEN (IF withinShifted((whole + 1) * den - num, den, 54 - bitLen(whole))
          THEN whole + 1 ELSE whole)
    ELSE roundHalfEven(num, den * Pow(2, bitLen(whole) - 53))
            * Pow(2, bitLen(whole) - 53)

\* int(val) for the magnitude whole of val
intInRange(f, whole) ==
    IF bitLen(whole) <= 63 THEN (IF f.neg THEN 0 - whole ELSE whole)
    ELSE IF f.neg /\ whole = Pow(2, 63) THEN MinInt64
    ELSE intOutOfRange(f.kind, f.neg)

\* int(val): the conversion truncates toward zero.  A magnitude below 1/10
\* (1/2 written in hex) gives 0 and one from 10^19 (2^64) on is out of range
\* without the digits being looked at.
TruncToInt(f) ==
    IF f.kind # "finite" THEN intOutOfRange(f.kind, f.neg)
    ELSE IF f.mant = 0 \/ magnitudeLen(f, f.hex) < 0 THEN 0
    ELSE IF magnitudeLen(f, f.hex) > (IF f.hex THEN 64 ELSE 19)
    THEN intOutOfRange(f.kind, f.neg)
    ELSE intInRange(f, float64Whole(numerator(f), denominator(f),
                                    numerator(f) \div denominator(f)))

\* if val, err := strconv.ParseFloat(s, 64); err == nil { return int(val) }
\* return 0
lengthOf(f) == IF f.ok THEN TruncToInt(f) ELSE 0

\* parseLength parses a length string (handles px, no unit)
parseLength(s) ==
    lengthOf(ParseFloat(TrimSuffix(TrimSuffix(TrimSpace(s), <<"p", "x">>),
                                   <<"p", "t">>)))

(***************************************************************************)
(* colours: color.Color values as 8-bit R, G, B, A                         *)
(***************************************************************************)

RGBA(r, g, b, a) == [R |-> r, G |-> g, B |-> b, A |-> a]

\* color.Transparent, color.White, color.Black
Transparent == RGBA(0, 0, 0, 0)
White       == RGBA(255, 255, 255, 255)
Black       == RGBA(0, 0, 0, 255)

\* one channel of #RRGGBB: the parsed value, 0 when the segment does not parse
HexByte(seg) ==
    IF ParseUint16(seg).ok THEN ParseUint16(seg).val ELSE 0

\* mutant of HexNibble: the digit shifted into the high nibble (f -> 0xf0)
HexNibbleShifted(seg) ==
    IF ParseUint16(seg).ok THEN (ParseUint16(seg).val * 16) % 256 ELSE 0

\* one channel of #RGB: uint8(val * 17), 0 when the digit does not parse
HexNibble(seg) ==
    IF ParseUint16(seg).ok THEN (ParseUint16(seg).val * 17) % 256 ELSE 0

\* the "#..." branch of parseColor, h the text after the '#'
parseHexColor(h) ==
    IF Len(h) = 6
    THEN RGBA(HexByte(SubSeq(h, 1, 2)), HexByte(SubSeq(h, 3, 4)),
              HexByte(SubSeq(h, 5, 6)), 255)
    ELSE IF Len(h) = 3
    THEN RGBA(HexNibble(SubSeq(h, 1, 1)), HexNibble(SubSeq(h, 2, 2)),
              HexNibble(SubSeq(h, 3, 3)), 255)
    ELSE RGBA(0, 0, 0, 255)

\* mutant of namedColor: an unknown name is transparent
namedColorOrNone(s) ==
    CASE s = <<"w","h","i","t","e">> -> White
      [] s = <<"b","l","a","c","k">> -> Black
      [] s = <<"r","e","d">>         -> RGBA(255, 0, 0, 255)
      [] s = <<"g","r","e","e","n">> -> RGBA(0, 255, 0, 255)
      [] s = <<"b","l","u","e">>     -> RGBA(0, 0, 255, 255)
      [] OTHER                       -> Transparent

\* the named-colour switch of parseColor
namedColor(s) ==
    CASE s = <<"w","h","i","t","e">> -> White
      [] s = <<"b","l","a","c","k">> -> Black
      [] s = <<"r","e","d">>         -> RGBA(255, 0, 0, 255)
      [] s = <<"g","r","e","e","n">> -> RGBA(0, 255, 0, 255)
      [] s = <<"b","l","u","e">>     -> RGBA(0, 0, 255, 255)
      [] OTHER                       -> Black

\* parseColor parses a color string (hex or named)
\* parseColor after s = strings.TrimSpace(s)
colorOf(s) ==
    IF s = <<>> \/ s = <<"n","o","n","e">> THEN Transparent
    ELSE IF HasPrefix(s, <<"#">>) THEN parseHexColor(TrimPrefix(s, <<"#">>))
    ELSE namedColor(s)

\* parseColor parses a color string (hex or named)
parseColor(str) == colorOf(TrimSpace(str))

(***************************************************************************)
(* export formats                                                          *)
(***************************************************************************)

FormatSVG  == "svg"
FormatPNG  == "png"
FormatJPEG == "jpeg"

\* GetMimeType returns the MIME type for a format
GetMimeType(format) ==
    CASE format = FormatSVG  -> "image/svg+xml"
      [] format = FormatPNG  -> "image/png"
      [] format = FormatJPEG -> "image/jpeg"
      [] OTHER               -> "application/octet-stream"

\* mutant of GetFileExtension: the JPEG extension spelled like the format
GetFileExtensionJpeg(format) ==
    CASE format = FormatSVG  -> ".svg"
      [] format = FormatPNG  -> ".png"
      [] format = FormatJPEG -> ".jpeg"
      [] OTHER               -> ".bin"

\* GetFileExtension returns the file extension for a format
GetFileExtension(format) ==
    CASE format = FormatSVG  -> ".svg"
      [] format = FormatPNG  -> ".png"
      [] format = FormatJPEG -> ".jpg"
      [] OTHER               -> ".bin"


\* ParseFormat parses a format string: (format, error)
\* ParseFormat after s = strings.ToLower(strings.TrimSpace(s))
formatOf(s) ==
    CASE s = <<"s","v","g">>     -> [format |-> FormatSVG,  err |-> Nil]
      [] s = <<"p","n","g">>     -> [format |-> FormatPNG,  err |-> Nil]
      [] s = <<"j","p","e","g">> -> [format |-> FormatJPEG, err |-> Nil]
      [] s = <<"j","p","g">>     -> [format |-> FormatJPEG, err |-> Nil]
      [] OTHER -> [format |-> "", err |-> <<"unknown format: ", s>>]

\* mutant of ParseFormat: the name is compared without strings.ToLower
ParseFormatExact(str) == formatOf(TrimSpace(str))

\* ParseFormat parses a format string: (format, error)
ParseFormat(str) == formatOf(ToLower(TrimSpace(str)))

(***************************************************************************)
(* image.Rectangle, image.RGBA and the drawing operations                  *)
(***************************************************************************)

\* image.Rect: the rectangle is canonicalised, swapping coordinates that are
\* out of order
Rect(x0, y0, x1, y1) ==
    [MinX |-> Min2(x0, x1), MinY |-> Min2(y0, y1),
     MaxX |-> Max2(x0, x1), MaxY |-> Max2(y0, y1)]

\* Rectangle.Dx, Rectangle.Dy
Dx(r) == I64(r.MaxX - r.MinX)
Dy(r) == I64(r.MaxY - r.MinY)

\* Rectangle.Intersect (an empty result is the zero rectangle)
Intersect(r, s) ==
    LET t == [MinX |-> Max2(r.MinX, s.MinX), MinY |-> Max2(r.MinY, s.MinY),
              MaxX |-> Min2(r.MaxX, s.MaxX), MaxY |-> Min2(r.MaxY, s.MaxY)]
    IN  IF t.MinX >= t.MaxX \/ t.MinY >= t.MaxY
        THEN [MinX |-> 0, MinY |-> 0, MaxX |-> 0, MaxY |-> 0]
        ELSE t

\* Point.In(r): the pixel <<x, y>> lies in r
InRect(p, r) ==
    r.MinX <= p[1] /\ p[1] < r.MaxX /\ r.MinY <= p[2] /\ p[2] < r.MaxY

(***************************************************************************)
(* An image.RGBA is its bounds and the drawing operations applied to it,   *)
(* in order; At replays them for one pixel.  Op is "src" or "over"         *)
(* (draw.Src, draw.Over); a "fill" operation is draw.Draw with a uniform   *)
(* colour over a rectangle, a "vector" operation is Rasterizer.Draw of the *)
(* path the rasterizer held.                                               *)
(***************************************************************************)

\* bits.Mul64(a, b) returns a high word that is not zero: the product of the
\* two non-negative factors does not fit 64 bits.  Factors whose bit lengths
\* sum to at most 64 have a product below 2^64.
mul64High(a, b) ==
    IF bitLen(a) + bitLen(b) <= 64 THEN FALSE ELSE a * b >= Pow(2, 64)

\* mul3NonNeg of package image: x*y*z, or -1 when a factor is negative, when
\* x*y does not fit 64 bits (whatever z is), when (x*y)*z does not, or when
\* the product is negative as an int
mul3NonNeg(x, y, z) ==
    IF x < 0 \/ y < 0 \/ z < 0 THEN 0 - 1
    ELSE IF mul64High(x, y) THEN 0 - 1
    ELSE IF mul64High(x * y, z) THEN 0 - 1
    ELSE IF I64(x * y * z) < 0 THEN 0 - 1
    ELSE x * y * z

\* make([]uint8, n) panics for a length above maxAlloc, which is 2^48 on
\* both builds (48 bits of heap address)
makeslicePanics(n) ==
    IF bitLen(n) <= 48 THEN FALSE ELSE n > Pow(2, 48)

\* image.NewRGBA: every pixel starts as the zero colour.  It panics for a
\* rectangle for which mul3NonNeg has no length, and then in make for a
\* length no slice can have.
NewRGBA(r) ==
    IF mul3NonNeg(4, Dx(r), Dy(r)) < 0
    THEN [panic |-> "image: NewRGBA Rectangle has huge or negative dimensions"]
    ELSE IF makeslicePanics(mul3NonNeg(4, Dx(r), Dy(r)))
    THEN [panic |-> "runtime error: makeslice: len out of range"]
    ELSE [Rect |-> r, Ops |-> <<>>]

Panicked(v) == "panic" \in DOMAIN v

\* the bounds of an image.Uniform, (-1e9,-1e9)-(1e9,1e9), moved by (x, y)
uniformBoundsAt(x, y) ==
    [MinX |-> I64(x - 1000000000), MinY |-> I64(y - 1000000000),
     MaxX |-> I64(x + 1000000000), MaxY |-> I64(y + 1000000000)]

\* clip of package draw for a Uniform source at the zero point: r is
\* intersected with the bounds of dst, and the result with the bounds of the
\* source moved to the Min r came with
clip(dst, r) ==
    Intersect(Intersect(r, dst.Rect), uniformBoundsAt(r.MinX, r.MinY))

\* draw.Draw(dst, r, &image.Uniform{c}, image.Point{}, op): the clipped
\* rectangle is filled
drawUniform(img, r, c, op) ==
    [img EXCEPT !.Ops = Append(@, [kind |-> "fill", r |-> clip(img, r),
                                   c |-> c, op |-> op])]

fillPixel(old, c, op) ==
    CASE op = "src"              -> c
      [] op = "over" /\ c.A = 255 -> c
      [] op = "over" /\ c.A = 0   -> old

(***************************************************************************)
(* float32.  A value is [m, e], the number m * 2^e with m odd, or m = 0    *)
(* and e = 0 for zero; a float32 has an m of at most 24 bits.  Every       *)
(* operation gives the float32 nearest to the exact result, the one with   *)
(* the even last bit of two equally near.  The values the drawing code     *)
(* computes stay below 2^80 in size: none overflows to an infinity.        *)
(***************************************************************************)
Abs(n) == IF n < 0 THEN 0 - n ELSE n

\* the number of zero bits n > 0 ends with
RECURSIVE trailingZeros(_)
trailingZeros(n) ==
    IF n % 65536 = 0 THEN 16 + trailingZeros(n \div 65536)
    ELSE IF n % 256 = 0 THEN 8 + trailingZeros(n \div 256)
    ELSE IF n % 16 = 0 THEN 4 + trailingZeros(n \div 16)
    ELSE IF n % 4 = 0 THEN 2 + trailingZeros(n \div 4)
    ELSE IF n % 2 = 0 THEN 1
    ELSE 0

withoutZeros(m, e, k) == [m |-> m \div Pow(2, k), e |-> e + k]

normal(m, e) ==
    IF m = 0 THEN [m |-> 0, e |-> 0]
    ELSE withoutZeros(m, e, trailingZeros(Abs(m)))

FNeg(a) == [m |-> 0 - a.m, e |-> a.e]

\* the bits of m * 2^e a float32 cannot hold: those past 24, and those below
\* 2^-149
dropBits(m, e) == Max2(Max2(bitLen(Abs(m)) - 24, (0 - 149) - e), 0)

\* a / 2^k rounded to the nearest integer, to the even one of two
roundBits(a, k) ==
    IF k = 0 THEN a
    ELSE IF \/ 2 * (a % Pow(2, k)) > Pow(2, k)
            \/ 2 * (a % Pow(2, k)) = Pow(2, k) /\ (a \div Pow(2, k)) % 2 = 1
    THEN a \div Pow(2, k) + 1
    ELSE a \div Pow(2, k)

roundDropping(m, e, k) ==
    IF m < 0 THEN normal(0 - roundBits(0 - m, k), e + k)
    ELSE normal(roundBits(m, k), e + k)

\* the float32 nearest to m * 2^e; float32(n) for an integer n is F32(n, 0)
F32(m, e) == roundDropping(m, e, dropBits(m, e))

\* a # 0 lies in [2^(topBit - 1), 2^topBit) in size
topBit(a) == a.e + bitLen(Abs(a.m))

\* a + b, exactly
sumExact(a, b) ==
    IF a.e <= b.e
    THEN [m |-> a.m + b.m * Pow(2, b.e - a.e), e |-> a.e]
    ELSE [m |-> a.m * Pow(2, a.e - b.e) + b.m, e |-> b.e]

roundExact(s) == F32(s.m, s.e)

\* a + b for float32s a and b whose exact sum takes more than 31 bits, a the
\* larger in size: the sum in units of 2^(topBit(a) - 28), which a is a
\* multiple of, followed by a bit that is set when b is not
alignedLow(a, b, k) ==
    IF k <= 0 THEN [m |-> 2 * (a + b.m * Pow(2, 0 - k)), e |-> 0 - 1]
    ELSE [m |-> 2 * (a + b.m \div Pow(2, k)) + (IF b.m % Pow(2, k) = 0 THEN 0 ELSE 1),
          e |-> 0 - 1]
sumAligned(a, b, s) ==
    [m |-> alignedLow(a.m * Pow(2, a.e - s), b, s - b.e).m, e |-> s - 1]

isFloat32(a) == bitLen(Abs(a.m)) <= 24

\* the float32 nearest to a + b.  A float32 a stays what it is when b is
\* below 2^(topBit(a) - 27), an eighth of the gap between float32s at a.
roundSum(a, b) ==
    IF a.m = 0 THEN F32(b.m, b.e)
    ELSE IF b.m = 0 THEN F32(a.m, a.e)
    ELSE IF isFloat32(a) /\ topBit(a) - topBit(b) > 26 THEN normal(a.m, a.e)
    ELSE IF isFloat32(b) /\ topBit(b) - topBit(a) > 26 THEN normal(b.m, b.e)
    ELSE IF Max2(topBit(a), topBit(b)) - Min2(a.e, b.e) <= 30 \/ ~isFloat32(a) \/ ~isFloat32(b)
    THEN roundExact(sumExact(a, b))
    ELSE IF topBit(a) > topBit(b) THEN roundExact(sumAligned(a, b, topBit(a) - 28))
    ELSE roundExact(sumAligned(b, a, topBit(b) - 28))

FAdd(a, b) == roundSum(a, b)
FSub(a, b) == roundSum(a, FNeg(b))

\* m1 * m2 for m1, m2 of 24 bits or fewer, from their halves of 12 bits:
\* hi * 2^24 + lo with lo < 2^24
limb == 4096
mulMid(m1, m2) == (m1 \div limb) * (m2 % limb) + (m1 % limb) * (m2 \div limb)
mulLo(m1, m2) == (mulMid(m1, m2) % limb) * limb + (m1 % limb) * (m2 % limb)
mulParts(mid, lo, top) ==
    [hi |-> top + mid \div limb + lo \div (limb * limb), lo |-> lo % (limb * limb)]
mulExact(m1, m2) ==
    mulParts(mulMid(m1, m2), mulLo(m1, m2), (m1 \div limb) * (m2 \div limb))

\* the float32 nearest to (p.hi * 2^24 + p.lo) * 2^e: a product of more than
\* 30 bits is rounded from its first 30 bits, followed by a bit that is set
\* when any bit after them is
mulRound(p, e, k) ==
    F32(2 * (p.hi * Pow(2, k) + p.lo \div Pow(2, 24 - k))
          + (IF p.lo % Pow(2, 24 - k) = 0 THEN 0 ELSE 1),
        e + 24 - k - 1)

mulWide(p, e) == mulRound(p, e, Min2(24, 30 - bitLen(p.hi)))

\* the float32 nearest to m1 * m2 * 2^e, for m1, m2 > 0
mulAbs(m1, m2, e) ==
    IF bitLen(m1) + bitLen(m2) <= 31 THEN F32(m1 * m2, e)
    ELSE mulWide(mulExact(m1, m2), e)

FMul(a, b) ==
    IF a.m = 0 \/ b.m = 0 THEN [m |-> 0, e |-> 0]
    ELSE IF (a.m < 0) = (b.m < 0) THEN mulAbs(Abs(a.m), Abs(b.m), a.e + b.e)
    ELSE FNeg(mulAbs(Abs(a.m), Abs(b.m), a.e + b.e))

\* long division: seven more bits of the quotient qr.q, qr.r the remainder
\* so far
longDiv(qr, d) ==
    [q |-> qr.q * 128 + (qr.r * 128) \div d, r |-> (qr.r * 128) % d]

\* m > 0 shifted to 24 bits
stretch(m) == m * Pow(2, 24 - bitLen(m))

\* the float32 nearest to (qr.q + qr.r / d) * 2^e, qr.q of 26 bits or more
roundQuotient(qr, e) == F32(2 * qr.q + (IF qr.r = 0 THEN 0 ELSE 1), e - 1)

\* n / d for n, d > 0 of 24 bits: 28 bits after the point
divAbs(n, d, e) ==
    roundQuotient(longDiv(longDiv(longDiv(longDiv([q |-> n \div d, r |-> n % d], d), d), d), d),
                  e - 28)

divExp(a, b) ==
    (a.e - (24 - bitLen(Abs(a.m)))) - (b.e - (24 - bitLen(Abs(b.m))))

\* a / b, b # 0
FDiv(a, b) ==
    IF a.m = 0 THEN [m |-> 0, e |-> 0]
    ELSE IF (a.m < 0) = (b.m < 0)
    THEN divAbs(stretch(Abs(a.m)), stretch(Abs(b.m)), divExp(a, b))
    ELSE FNeg(divAbs(stretch(Abs(a.m)), stretch(Abs(b.m)), divExp(a, b)))

\* a < b for a, b > 0
lessAbs(a, b) ==
    IF topBit(a) # topBit(b) THEN topBit(a) < topBit(b)
    ELSE IF a.e <= b.e THEN a.m < b.m * Pow(2, b.e - a.e)
    ELSE a.m * Pow(2, a.e - b.e) < b.m

\* a < b
FLess(a, b) ==
    CASE a.m < 0 /\ b.m >= 0 -> TRUE
      [] a.m = 0             -> b.m > 0
      [] a.m > 0 /\ b.m <= 0 -> FALSE
      [] a.m > 0 /\ b.m > 0  -> lessAbs(a, b)
      [] a.m < 0 /\ b.m < 0  -> lessAbs(FNeg(b), FNeg(a))

\* a without its fraction
truncF(a) ==
    IF a.e >= 0 THEN a.m * Pow(2, a.e)
    ELSE IF bitLen(Abs(a.m)) <= 0 - a.e THEN 0
    ELSE IF a.m < 0 THEN 0 - ((0 - a.m) \div Pow(2, 0 - a.e))
    ELSE a.m \div Pow(2, 0 - a.e)

(***************************************************************************)
(* int32 arithmetic: sums, products and shifts wrap around.                *)
(***************************************************************************)
I32(v) ==
    IF (0 - 2147483647) <= v /\ v <= 2147483647 THEN v
    ELSE ((v + Pow(2, 31)) % Pow(2, 32)) - Pow(2, 31)

\* uint32 arithmetic
U32(v) ==
    IF 0 <= v /\ v <= 2147483647 THEN v ELSE v % Pow(2, 32)

\* a / b of Go: the quotient is truncated toward zero
quo(a, b) ==
    IF (a < 0) = (b < 0) THEN Abs(a) \div Abs(b)
    ELSE 0 - (Abs(a) \div Abs(b))

(***************************************************************************)
(* golang.org/x/image/vector: the Rasterizer that rasterize creates and    *)
(* renderCircle and renderLine draw with.  A rasterizer no wider and no    *)
(* higher than 512 works in fixed point, with phi = 9 bits after the       *)
(* point, on bufU32; a larger one works in float32, on bufF32.             *)
(*                                                                         *)
(* In fixed point bufU32 is the list of what was done to the buffer since  *)
(* Reset zeroed it: [op "add", i, v] for buf[i] += v, and [op              *)
(* "accumulate"] for accumulateMask, which replaces the buffer by its      *)
(* mask.  In float32 bufF32 is the list of the additions [x, v] made to    *)
(* the buffer since Reset zeroed it, buf[x] += v; accumulateMask writes to *)
(* bufU32 the mask it computes from them: the list of [i, v] for "v from   *)
(* sample i up to the next i of the list", samples before the first i      *)
(* being 0.  path is the list of                                           *)
(* the MoveTo, LineTo and ClosePath calls since Reset.                     *)
(***************************************************************************)
phi == 9
fxOne == 512
fxOneAndAHalf == 768
floatingPointMathThreshold == 512

\* int1phi(f) for a float32 f: a value no int32 holds converts to the
\* smallest int32 on amd64, to the nearest int32 on arm64
int1phi(a) ==
    IF a.m = 0 \/ topBit(a) <= 31 THEN truncF(a)
    ELSE IF goarch = "amd64" \/ a.m < 0 THEN 0 - Pow(2, 31)
    ELSE Pow(2, 31) - 1

fixedFloor(x) == x \div fxOne
fixedCeil(x) == I32(x + (fxOne - 1)) \div fxOne

clamp(i, width) == IF i < 0 THEN 0 ELSE IF i < width THEN i ELSE width

\* buf[clamp(x, width)] += v
added(x, v) == [x |-> x, v |-> v, panics |-> FALSE]

\* D *= d; D /= twoOverS; buf[clamp(x, width)] += D, where the division
\* panics when twoOverS has wrapped around to 0
scaled(x, D, d, twoOverS) ==
    [x |-> x,
     v |-> IF twoOverS = 0 THEN 0 ELSE I32(quo(I32(D * d), twoOverS)),
     panics |-> twoOverS = 0]

\* the cells between the first two and the last two of a row: xi from
\* x0i + 2 while xi < x1i - 1
middleCells(xi, x1i, dTimesS) ==
    [k \in 1..(x1i - 1 - xi) |-> added(xi + k - 1, dTimesS)]

\* a row the segment crosses within one cell or two
narrowCells(d, x0i, xmf) ==
    <<added(x0i, I32(d * I32(fxOne - xmf))), added(x0i + 1, I32(d * xmf))>>

\* a row the segment crosses over three cells
threeCells(d, x0i, x1i, twoOverS, oneMinusX0fSquared, x1fSquared) ==
    <<scaled(x0i, oneMinusX0fSquared, d, twoOverS),
      scaled(x0i + 1,
             I32(I32(I32(twoOverS * fxOne) - oneMinusX0fSquared) - x1fSquared),
             d, twoOverS),
      scaled(x1i, x1fSquared, d, twoOverS)>>

\* a row the segment crosses over four cells or more
manyCells(d, x0i, x1i, oneOverS, twoOverS, x0f, oneMinusX0fSquared, x1fSquared) ==
    <<scaled(x0i, oneMinusX0fSquared, d, twoOverS),
      scaled(x0i + 1,
             I32(I32(I32(fxOneAndAHalf - x0f) * (2 * fxOne)) - oneMinusX0fSquared),
             d, twoOverS)>>
    \o middleCells(x0i + 2, x1i, I32(quo(I32(d * (fxOne * fxOne)), oneOverS)))
    \o <<scaled(x1i - 1,
                I32(I32(I32(I32(twoOverS * fxOne)
                            - I32(I32(fxOneAndAHalf - x0f) * (2 * fxOne)))
                        - I32(I32(x1i - x0i - 3) * (2 * fxOne * fxOne)))
                    - x1fSquared),
                d, twoOverS),
         scaled(x1i, x1fSquared, d, twoOverS)>>

wideCells(d, x0i, x1i, oneOverS, x0f, x1f) ==
    IF x1i = x0i + 2
    THEN threeCells(d, x0i, x1i, I32(2 * oneOverS),
                    I32((fxOne - x0f) * (fxOne - x0f)), I32(x1f * x1f))
    ELSE manyCells(d, x0i, x1i, oneOverS, I32(2 * oneOverS), x0f,
                   I32((fxOne - x0f) * (fxOne - x0f)), I32(x1f * x1f))

\* the additions of one row: x0 <= x1 are x and xNext in order
cellsBetween(d, x, xNext, x0, x1, x0i, x1i) ==
    IF x1i <= x0i + 1
    THEN narrowCells(d, x0i, I32(I32(x + xNext) \div 2 - I32(x0i * fxOne)))
    ELSE wideCells(d, x0i, x1i, I32(x1 - x0), I32(x0 - I32(x0i * fxOne)),
                   I32(I32(x1 - I32(x1i * fxOne)) + fxOne))

rowCells(d, x, xNext) ==
    cellsBetween(d, x, xNext, Min2(x, xNext), Max2(x, xNext),
                 fixedFloor(Min2(x, xNext)), fixedCeil(Max2(x, xNext)))

\* buf := z.bufU32[y*width:]; if i := clamp(x, width); i < uint(len(buf))
inBuf(z, y, c) == clamp(c.x, z.w) < z.w * z.h - y * z.w

placeCell(z, y, c) == [c EXCEPT !.x = y * z.w + clamp(c.x, z.w)]

cellsInBuf(z, y, cells) == SelectSeq(cells, LAMBDA c : inBuf(z, y, c))

placed(z, y, cells) == [k \in DOMAIN cells |-> placeCell(z, y, cells[k])]

placeCells(z, y, cells) == placed(z, y, cellsInBuf(z, y, cells))

\* dy of row y: the part of the row between ay and by
rowHeight(s, y) ==
    I32(Min2(I32(I32(y + 1) * fxOne), s.by) - Max2(I32(y * fxOne), s.ay))

\* the rows y .. yMax - 1 of fixedLineTo, x the crossing at the top of row y
RECURSIVE fixedRowsFrom(_, _, _, _)
fixedRow(z, s, y, x, dy, xNext) ==
    (IF y < 0 THEN <<>> ELSE placeCells(z, y, rowCells(I32(dy * s.dir), x, xNext)))
    \o fixedRowsFrom(z, s, y + 1, xNext)

fixedRowNext(z, s, y, x, dy) ==
    fixedRow(z, s, y, x, dy, I32(x + int1phi(FMul(F32(dy, 0), s.dxdy))))

fixedRowsFrom(z, s, y, x) ==
    IF y >= s.yMax THEN <<>>
    ELSE fixedRowNext(z, s, y, x, rowHeight(s, y))

\* 0.000001 as a float32
almostHorizontal == [m |-> 8796093, e |-> 0 - 43]

\* ay * float32(fxOne)
timesFxOne(a) == IF a.m = 0 THEN a ELSE [m |-> a.m, e |-> a.e + phi]

\* fixedLineTo from a to b with ay <= by: a horizontal or almost horizontal
\* segment adds nothing
fixedSegmentRows(z, dir, dxdy, ay, by, x) ==
    fixedRowsFrom(z, [dir |-> dir, dxdy |-> dxdy, ay |-> ay, by |-> by,
                      yMax |-> Min2(fixedCeil(by), z.h)],
                  fixedFloor(ay), x)

fixedSegment(z, dir, a, b) ==
    IF ~FLess(almostHorizontal, FSub(b.y, a.y)) THEN <<>>
    ELSE fixedSegmentRows(z, dir, FDiv(FSub(b.x, a.x), FSub(b.y, a.y)),
                          int1phi(timesFxOne(a.y)), int1phi(timesFxOne(b.y)),
                          int1phi(timesFxOne(a.x)))

\* what fixedLineTo adds to the buffer for the segment from the pen to b
fixedAdds(z, b) ==
    IF FLess(b.y, z.pen.y) THEN fixedSegment(z, 0 - 1, b, z.pen)
    ELSE fixedSegment(z, 1, z.pen, b)

bufAdds(adds) ==
    [k \in DOMAIN adds |-> [op |-> "add", i |-> adds[k].x, v |-> adds[k].v]]

fixedLineTo(z, b, adds) ==
    [z EXCEPT !.pen = b,
              !.bufU32 = @ \o bufAdds(adds),
              !.panicked = @ \/ \E k \in DOMAIN adds : adds[k].panics]

(***************************************************************************)
(* raster_floating.go.  No product is fused with a sum: the code converts  *)
(* every product to float32 before it adds to it.                          *)
(***************************************************************************)
fZero == [m |-> 0, e |-> 0]
fOne == [m |-> 1, e |-> 0]
fHalf == [m |-> 1, e |-> 0 - 1]
fOneAndAHalf == [m |-> 3, e |-> 0 - 1]

floatingMax(x, y) == IF FLess(y, x) THEN x ELSE y
floatingMin(x, y) == IF FLess(x, y) THEN x ELSE y

\* math.Floor and math.Ceil of a float32, as integers
floorF(a) ==
    IF a.e >= 0 THEN a.m * Pow(2, a.e)
    ELSE IF bitLen(Abs(a.m)) <= 0 - a.e THEN (IF a.m < 0 THEN 0 - 1 ELSE 0)
    ELSE a.m \div Pow(2, 0 - a.e)
ceilF(a) == 0 - floorF(FNeg(a))
\* int32(f) for a float64 f without a fraction: a value no int32 holds
\* converts to the smallest int32 on amd64, to the nearest int32 on arm64
toInt32(a, whole) ==
    IF a.m = 0 \/ topBit(a) <= 31 THEN whole
    ELSE IF goarch = "amd64" \/ a.m < 0 THEN 0 - Pow(2, 31)
    ELSE Pow(2, 31) - 1
floatingFloor(x) == toInt32(x, IF x.m = 0 \/ topBit(x) <= 31 THEN floorF(x) ELSE 0)
floatingCeil(x) == toInt32(x, IF x.m = 0 \/ topBit(x) <= 31 THEN ceilF(x) ELSE 0)

\* a row the segment crosses within one cell or two
floatingNarrowCells(d, x0i, xmf) ==
    <<added(x0i, FSub(d, FMul(d, xmf))), added(I32(x0i + 1), FMul(d, xmf))>>

\* a row the segment crosses over three cells
floatingThreeCells(d, x0i, x1i, a0, am) ==
    <<added(x0i, FMul(d, a0)),
      added(I32(x0i + 1), FMul(d, FSub(FSub(fOne, a0), am))),
      added(x1i, FMul(d, am))>>

\* a row the segment crosses over four cells or more
floatingManyCells(d, x0i, x1i, oneOverS, a0, a1, am) ==
    <<added(x0i, FMul(d, a0)),
      added(I32(x0i + 1), FMul(d, FSub(a1, a0)))>>
    \o middleCells(I32(x0i + 2), x1i, FMul(d, oneOverS))
    \o <<added(I32(x1i - 1),
                FMul(d, FSub(FSub(fOne,
                                  FAdd(a1, FMul(oneOverS,
                                                F32(I32(I32(x1i - x0i) - 3), 0)))),
                             am))),
         added(x1i, FMul(d, am))>>

\* a0 is 0.5 * oneOverS * oneMinusX0f * oneMinusX0f, am is
\* 0.5 * oneOverS * x1f * x1f and a1 is oneOverS * (1.5 - x0f)
floatingWideCells(d, x0i, x1i, oneOverS, x0f, x1f) ==
    IF x1i = I32(x0i + 2)
    THEN floatingThreeCells(d, x0i, x1i,
             FMul(FMul(FMul(fHalf, oneOverS), FSub(fOne, x0f)), FSub(fOne, x0f)),
             FMul(FMul(FMul(fHalf, oneOverS), x1f), x1f))
    ELSE floatingManyCells(d, x0i, x1i, oneOverS,
             FMul(FMul(FMul(fHalf, oneOverS), FSub(fOne, x0f)), FSub(fOne, x0f)),
             FMul(oneOverS, FSub(fOneAndAHalf, x0f)),
             FMul(FMul(FMul(fHalf, oneOverS), x1f), x1f))

\* the additions of one row: x0 <= x1 are x and xNext in order
floatingCellsBetween(d, x, xNext, x0, x1, x0i, x1i) ==
    IF x1i <= I32(x0i + 1)
    THEN floatingNarrowCells(d, x0i,
                             FSub(FMul(fHalf, FAdd(x, xNext)), F32(x0i, 0)))
    ELSE floatingWideCells(d, x0i, x1i, FDiv(fOne, FSub(x1, x0)),
                           FSub(x0, F32(x0i, 0)),
                           FAdd(FSub(x1, F32(x1i, 0)), fOne))

floatingRowCells(d, x, xNext) ==
    floatingCellsBetween(d, x, xNext, floatingMin(xNext, x), floatingMax(xNext, x),
                         floatingFloor(floatingMin(xNext, x)),
                         floatingCeil(floatingMax(xNext, x)))

\* dy of row y: the part of the row between ay and by
floatingRowHeight(s, y) ==
    FSub(floatingMin(F32(I32(y + 1), 0), s.by), floatingMax(F32(y, 0), s.ay))

\* the rows y .. yMax - 1 of floatingLineTo, x the crossing at the top of
\* row y
RECURSIVE floatingRowsFrom(_, _, _, _)
floatingRow(z, s, y, x, dy, xNext) ==
    (IF y < 0 THEN <<>>
     ELSE placeCells(z, y, floatingRowCells(FMul(dy, s.dir), x, xNext)))
    \o floatingRowsFrom(z, s, I32(y + 1), xNext)

floatingRowNext(z, s, y, x, dy) ==
    floatingRow(z, s, y, x, dy, FAdd(x, FMul(dy, s.dxdy)))

floatingRowsFrom(z, s, y, x) ==
    IF y >= s.yMax THEN <<>>
    ELSE floatingRowNext(z, s, y, x, floatingRowHeight(s, y))

\* floatingLineTo from a to b with ay <= by: a horizontal or almost
\* horizontal segment adds nothing
floatingSegment(z, dir, a, b) ==
    IF ~FLess(almostHorizontal, FSub(b.y, a.y)) THEN <<>>
    ELSE floatingRowsFrom(z, [dir |-> dir,
                              dxdy |-> FDiv(FSub(b.x, a.x), FSub(b.y, a.y)),
                              ay |-> a.y, by |-> b.y,
                              yMax |-> Min2(floatingCeil(b.y), I32(z.h))],
                          floatingFloor(a.y), a.x)

\* what floatingLineTo adds to the buffer for the segment from the pen to b
floatingAdds(z, b) ==
    IF FLess(b.y, z.pen.y) THEN floatingSegment(z, FNeg(fOne), b, z.pen)
    ELSE floatingSegment(z, fOne, z.pen, b)

\* buf[c.x] += c.v for every c of adds, in order
floatingLineTo(z, b, adds) == [z EXCEPT !.pen = b, !.bufF32 = @ \o adds]

\* the elements of a set of integers in rising order
sorted(S) ==
    [k \in 1..Cardinality(S) |->
        CHOOSE x \in S : Cardinality({y \in S : y < x}) = k - 1]

\* almost65536 of raster_floating.go: the float32 0x477fffff
almost65536 == [m |-> 16777215, e |-> 0 - 8]

\* uint32(almost65536 * a) for a the size of acc, at most 1
floatingMask(acc) ==
    truncF(FMul(almost65536,
                floatingMin(IF acc.m < 0 THEN FNeg(acc) ELSE acc, fOne)))

\* the samples of the buffer that were added to
samplesF32(src) == {src[k].x : k \in DOMAIN src}

\* acc after the additions k .. of adds
RECURSIVE addedFrom(_, _, _)
addedFrom(acc, adds, k) ==
    IF k > Len(adds) THEN acc ELSE addedFrom(FAdd(acc, adds[k].v), adds, k + 1)

\* src[i]: 0 and what was added to the sample, in order
sampleF32(src, i) == addedFrom(fZero, SelectSeq(src, LAMBDA c : c.x = i), 1)

\* the loop of floatingAccumulateMask over the samples cells[lo .. hi], the
\* samples between them being 0: acc += src[i], for each i the acc after it
RECURSIVE accumulated(_, _, _, _, _)
accumulatedAfter(sums, src, cells, mid, hi) ==
    sums \o accumulated(sums[Len(sums)].acc, src, cells, mid + 1, hi)

accumulated(acc, src, cells, lo, hi) ==
    IF lo > hi THEN <<>>
    ELSE IF lo = hi
    THEN <<[i |-> cells[lo], acc |-> FAdd(acc, sampleF32(src, cells[lo]))]>>
    ELSE accumulatedAfter(accumulated(acc, src, cells, lo, (lo + hi) \div 2),
                          src, cells, (lo + hi) \div 2, hi)

\* floatingAccumulateMaskSIMD for the four samples from 4 * b on: the sums
\* s0, s0 + s1, (s1 + s2) + s0 and (s2 + s3) + (s0 + s1), each then added to
\* the offset, which is the last sum of the four samples before
simdSums(offset, s0, s1, s2, s3) ==
    <<FAdd(s0, offset), FAdd(FAdd(s1, s0), offset),
      FAdd(FAdd(FAdd(s2, s1), s0), offset),
      FAdd(FAdd(FAdd(s3, s2), FAdd(s1, s0)), offset)>>

simdStored(b, x) ==
    <<[i |-> 4 * b, acc |-> x[1]], [i |-> 4 * b + 1, acc |-> x[2]],
      [i |-> 4 * b + 2, acc |-> x[3]], [i |-> 4 * b + 3, acc |-> x[4]]>>

RECURSIVE accumulatedSIMD(_, _, _, _, _)
accumulatedSIMDAfter(sums, src, blocks, mid, hi) ==
    sums \o accumulatedSIMD(sums[Len(sums)].acc, src, blocks, mid + 1, hi)

accumulatedSIMD(offset, src, blocks, lo, hi) ==
    IF lo > hi THEN <<>>
    ELSE IF lo = hi
    THEN simdStored(blocks[lo],
                    simdSums(offset, sampleF32(src, 4 * blocks[lo]),
                             sampleF32(src, 4 * blocks[lo] + 1),
                             sampleF32(src, 4 * blocks[lo] + 2),
                             sampleF32(src, 4 * blocks[lo] + 3)))
    ELSE accumulatedSIMDAfter(accumulatedSIMD(offset, src, blocks, lo, (lo + hi) \div 2),
                              src, blocks, (lo + hi) \div 2, hi)

\* the samples from n - n % 4 on are accumulated one by one
simdTail(sums, src, cells) ==
    sums \o accumulated(IF sums = <<>> THEN fZero ELSE sums[Len(sums)].acc,
                        src, cells, 1, Len(cells))

\* dst[i] = uint32(almost65536 * min(|acc|, 1))
floatingMasks(sums) ==
    [k \in DOMAIN sums |-> [i |-> sums[k].i, v |-> floatingMask(sums[k].acc)]]

simdBlocks(S, n) == sorted({i \div 4 : i \in {j \in S : j < n - (n % 4)}})

\* floatingAccumulateMask(dst, src) for a buffer of n samples.  The amd64
\* build runs floatingAccumulateMaskSIMD (haveAccumulateSIMD: the processor
\* has SSE4.1), which sums four samples at a time; the arm64 build runs the
\* loop of raster_floating.go.
floatingAccumulateMask(src, n) ==
    IF goarch = "amd64"
    THEN floatingMasks(
             simdTail(accumulatedSIMD(fZero, src, simdBlocks(samplesF32(src), n), 1,
                                      Cardinality({i \div 4 : i \in {j \in samplesF32(src) : j < n - (n % 4)}})),
                      src, sorted({j \in samplesF32(src) : j >= n - (n % 4)})))
    ELSE floatingMasks(accumulated(fZero, src, sorted(samplesF32(src)), 1,
                                   Cardinality(samplesF32(src))))

\* the last of runs[lo .. hi] that starts at or before sample i, runs[lo]
\* being one
RECURSIVE lastRunUpTo(_, _, _, _)
lastRunUpTo(runs, i, lo, hi) ==
    IF lo = hi THEN lo
    ELSE IF runs[(lo + hi + 1) \div 2].i <= i
    THEN lastRunUpTo(runs, i, (lo + hi + 1) \div 2, hi)
    ELSE lastRunUpTo(runs, i, lo, (lo + hi + 1) \div 2 - 1)

\* bufU32[i] after floatingAccumulateMask
floatingMaskAt(runs, i) ==
    IF runs = <<>> THEN 0
    ELSE IF runs[1].i > i THEN 0
    ELSE runs[lastRunUpTo(runs, i, 1, Len(runs))].v

Vec2(x, y) == [x |-> x, y |-> y]

\* Rasterizer.Reset(w, h); NewRasterizer(w, h) is Reset on a new value
rasterizerReset(w, h) ==
    [w |-> w, h |-> h, first |-> Vec2(F32(0, 0), F32(0, 0)),
     pen |-> Vec2(F32(0, 0), F32(0, 0)), DrawOp |-> "over",
     useFloatingPointMath |-> (w > floatingPointMathThreshold
                                 \/ h > floatingPointMathThreshold),
     bufU32 |-> <<>>, bufF32 |-> <<>>, path |-> <<>>, panicked |-> FALSE]

\* Reset slices its buffer to w*h samples: a negative product is a slice
\* bound out of range
rasterizerPanics(w, h) == I64(w * h) < 0

lineTo(z, b) ==
    IF z.useFloatingPointMath THEN floatingLineTo(z, b, floatingAdds(z, b))
    ELSE fixedLineTo(z, b, fixedAdds(z, b))

\* a rasterizer that has panicked is not used any more
MoveTo(z, a) ==
    IF z.panicked THEN z
    ELSE [z EXCEPT !.first = a, !.pen = a,
                   !.path = Append(@, [cmd |-> "MoveTo", pt |-> a])]

LineTo(z, b) ==
    IF z.panicked THEN z
    ELSE [lineTo(z, b) EXCEPT !.path = Append(@, [cmd |-> "LineTo", pt |-> b])]

ClosePath(z) ==
    IF z.panicked THEN z
    ELSE [lineTo(z, z.first) EXCEPT
             !.path = Append(@, [cmd |-> "ClosePath", pt |-> z.first])]

RECURSIVE cellAt(_, _, _)
RECURSIVE cellsUpTo(_, _, _, _)

\* fixedAccumulateMask for the running sum acc: a = |acc| >> (2*phi - 16),
\* at most 0xffff, stored as a uint32
maskShifted(a) == IF a \div 4 > 65535 THEN 65535 ELSE U32(a \div 4)

maskOf(acc) == maskShifted(I32(Abs(acc)))

\* the sum of what the entries lo .. hi of log add to the cells from .. to;
\* int32 sums wrap around, so the order of the additions does not matter
RECURSIVE addedBetween(_, _, _, _, _)
addedBetween(log, lo, hi, from, to) ==
    IF lo > hi THEN 0
    ELSE IF lo = hi
    THEN (IF from <= log[lo].i /\ log[lo].i <= to THEN log[lo].v ELSE 0)
    ELSE I32(addedBetween(log, lo, (lo + hi) \div 2, from, to)
             + addedBetween(log, (lo + hi) \div 2 + 1, hi, from, to))

\* the last accumulateMask among the first n entries of log, 0 for none
lastAccumulate(log, n) ==
    IF \A k \in 1..n : log[k].op = "add" THEN 0
    ELSE CHOOSE k \in 1..n :
             log[k].op = "accumulate" /\ \A j \in (k + 1)..n : log[j].op = "add"

\* the running sum of fixedAccumulateMask at cell i after the first n
\* entries of log: buf[0] + ... + buf[i]
accAt(log, n, i) ==
    IF lastAccumulate(log, n) = 0 THEN addedBetween(log, 1, n, 0, i)
    ELSE cellsUpTo(log, n, 0, i)

\* buf[from] + ... + buf[to] after the first n entries of log
cellsUpTo(log, n, from, to) ==
    IF from > to THEN 0
    ELSE IF from = to THEN cellAt(log, n, from)
    ELSE I32(cellsUpTo(log, n, from, (from + to) \div 2)
             + cellsUpTo(log, n, (from + to) \div 2 + 1, to))

\* buf[i] after the first n entries of log, the last accumulateMask being
\* entry k > 0: the mask it left and what was added since
maskAndAdded(log, n, i, k) ==
    I32(maskOf(accAt(log, k - 1, i)) + addedBetween(log, k + 1, n, i, i))

cellAt(log, n, i) ==
    IF lastAccumulate(log, n) = 0 THEN addedBetween(log, 1, n, i, i)
    ELSE maskAndAdded(log, n, i, lastAccumulate(log, n))

\* rasterizeDstRGBASrcUniformOpOver for one channel: pix is the channel of
\* the pixel, s that of the source and sa the source's alpha, all of 8
\* bits, and ma the mask.  With sr = s * 0x101 and a the uint32
\* 0xffff - (sa * 0x101 * ma / 0xffff), the channel becomes
\* uint8(((pix * 0x101 * a + sr * ma) / 0xffff) >> 8).
overWith(pix, s, ma, a) ==
    ((U32(U32(pix * 257 * a) + U32(s * 257 * ma)) \div 65535) \div 256) % 256

\* for a mask of at most 0xffff and s <= sa nothing wraps around, and the
\* factor 0x101 leaves both quotients
overChannel(pix, s, sa, ma) ==
    IF ma <= 65535 /\ s <= sa
    THEN ((pix * (65535 - (sa * ma) \div 255) + s * ma) \div 255) \div 256
    ELSE overWith(pix, s, ma, U32(65535 - U32(sa * 257 * ma) \div 65535))

overPixel(old, c, ma) ==
    [R |-> overChannel(old.R, c.R, c.A, ma), G |-> overChannel(old.G, c.G, c.A, ma),
     B |-> overChannel(old.B, c.B, c.A, ma), A |-> overChannel(old.A, c.A, c.A, ma)]

\* Rasterizer.Draw(img, img.Bounds(), image.NewUniform(c), image.Point{}):
\* the image gets the operation.  z is the rasterizer as Draw finds it and
\* acc the rasterizer after accumulateMask; the operation keeps the fixed
\* point buffer of z, from which its mask is computed sample by sample, and
\* the mask computed in float32.
rasterizerDraw(img, z, acc, c) ==
    [img EXCEPT !.Ops = Append(@, [kind |-> "vector", r |-> img.Rect, c |-> c,
                                   op |-> z.DrawOp, w |-> z.w, h |-> z.h,
                                   floating |-> z.useFloatingPointMath,
                                   buf |-> z.bufU32,
                                   mask |-> IF z.useFloatingPointMath
                                            THEN acc.bufU32 ELSE <<>>,
                                   path |-> z.path])]

accumulateMask(z) ==
    IF z.useFloatingPointMath
    THEN [z EXCEPT !.bufU32 = floatingAccumulateMask(z.bufF32, z.w * z.h)]
    ELSE [z EXCEPT !.bufU32 = Append(@, [op |-> "accumulate", i |-> 0, v |-> 0])]

\* the mask of a vector operation at the sample <<x, y>>
maskAt(o, x, y) ==
    IF o.floating THEN floatingMaskAt(o.mask, y * o.w + x)
    ELSE maskOf(accAt(o.buf, Len(o.buf), y * o.w + x))

segments == 32

\* float32(math.Cos(float64(i) * 2.0 * math.Pi / float64(segments))) for
\* i = 1 .. segments
cos32 ==
    <<
      <<8227423, -23>>, <<7750063, -23>>, <<13949745, -24>>, <<11863283, -24>>,
      <<4660461, -23>>, <<12840725, -25>>, <<6546145, -25>>, <<4626585, -76>>,
      <<-6546145, -25>>, <<-12840725, -25>>, <<-4660461, -23>>, <<-11863283, -24>>,
      <<-13949745, -24>>, <<-7750063, -23>>, <<-8227423, -23>>, <<-1, 0>>,
      <<-8227423, -23>>, <<-7750063, -23>>, <<-13949745, -24>>, <<-11863283, -24>>,
      <<-4660461, -23>>, <<-12840725, -25>>, <<-6546145, -25>>, <<-6939877, -75>>,
      <<6546145, -25>>, <<12840725, -25>>, <<4660461, -23>>, <<11863283, -24>>,
      <<13949745, -24>>, <<7750063, -23>>, <<8227423, -23>>, <<1, 0>>
    >>

\* float32(math.Sin(float64(i) * 2.0 * math.Pi / float64(segments)))
sin32 ==
    <<
      <<6546145, -25>>, <<12840725, -25>>, <<4660461, -23>>, <<11863283, -24>>,
      <<13949745, -24>>, <<7750063, -23>>, <<8227423, -23>>, <<1, 0>>,
      <<8227423, -23>>, <<7750063, -23>>, <<13949745, -24>>, <<11863283, -24>>,
      <<4660461, -23>>, <<12840725, -25>>, <<6546145, -25>>, <<4626585, -75>>,
      <<-6546145, -25>>, <<-12840725, -25>>, <<-4660461, -23>>, <<-11863283, -24>>,
      <<-13949745, -24>>, <<-7750063, -23>>, <<-8227423, -23>>, <<-1, 0>>,
      <<-8227423, -23>>, <<-7750063, -23>>, <<-13949745, -24>>, <<-11863283, -24>>,
      <<-4660461, -23>>, <<-12840725, -25>>, <<-6546145, -25>>, <<-4626585, -74>>
    >>

tableValue(t) == [m |-> t[1], e |-> t[2]]

\* c + radius*t: one rounding on arm64, where the compiler fuses the
\* product and the sum, two on amd64
mulAdd(c, radius, t) ==
    IF goarch = "arm64"
    THEN roundSum(c, [m |-> radius.m * t.m, e |-> radius.e + t.e])
    ELSE FAdd(c, FMul(radius, t))

\* the point drawCircle draws a line to in round i of its loop
circlePoint(cx, cy, radius, i) ==
    Vec2(mulAdd(cx, radius, tableValue(cos32[i])),
         mulAdd(cy, radius, tableValue(sin32[i])))

\* the rounds lo .. hi of the loop of drawCircle: those of the first half,
\* then those of the second
RECURSIVE drawCircleRounds(_, _, _, _, _, _)
drawCircleRounds(z, cx, cy, radius, lo, hi) ==
    IF z.panicked THEN z
    ELSE IF lo = hi THEN LineTo(z, circlePoint(cx, cy, radius, lo))
    ELSE drawCircleRounds(
             drawCircleRounds(z, cx, cy, radius, lo, (lo + hi) \div 2),
             cx, cy, radius, (lo + hi) \div 2 + 1, hi)

\* drawCircle draws a circle using the vector rasterizer
drawCircle(z, cx, cy, radius) ==
    ClosePath(drawCircleRounds(MoveTo(z, Vec2(FAdd(cx, radius), cy)),
                               cx, cy, radius, 1, segments))

\* RGBA.At after the first n operations
RECURSIVE AtN(_, _, _)
AtN(img, p, n) ==
    IF ~InRect(p, img.Rect) THEN RGBA(0, 0, 0, 0)
    ELSE IF n = 0 THEN RGBA(0, 0, 0, 0)
    ELSE LET o   == img.Ops[n]
             old == AtN(img, p, n - 1)
         IN  CASE o.kind = "fill" ->
                    IF InRect(p, o.r) THEN fillPixel(old, o.c, o.op) ELSE old
               [] o.kind = "vector" /\ o.op = "over" /\ o.c.A = 0 -> old
               [] o.kind = "vector" /\ o.op = "over" /\ o.c.A # 0 ->
                    overPixel(old, o.c,
                              maskAt(o, p[1] - o.r.MinX, p[2] - o.r.MinY))

\* RGBA.At: the colour of pixel p
At(img, p) == AtN(img, p, Len(img.Ops))

\* every pixel of an image
PixelsOf(img) ==
    {<<px, py>> : px \in img.Rect.MinX..(img.Rect.MaxX - 1),
                  py \in img.Rect.MinY..(img.Rect.MaxY - 1)}

(***************************************************************************)
(* svgElement and parseSVG                                                 *)
(***************************************************************************)

\* &svgElement{Tag: name, Attributes: make(map[string]string)}
svgElement(tag) ==
    [Tag |-> tag, Attributes |-> <<>>, Children |-> <<>>, Text |-> <<>>]

\* the loop over t.Attr: a later attribute of the same name overwrites
setAttributes(elem, attr) ==
    [elem EXCEPT !.Attributes =
        [n \in {attr[i].name : i \in 1..Len(attr)} |->
            attr[CHOOSE i \in 1..Len(attr) :
                    /\ attr[i].name = n
                    /\ \A j \in (i + 1)..Len(attr) : attr[j].name # n].value]]

\* elem.Attributes[name]: the empty string for a missing key
Attr(elem, name) ==
    IF name \in DOMAIN elem.Attributes THEN elem.Attributes[name] ELSE <<>>

\* the tokens xml.Decoder.Token returns
StartElement(name, attr) ==
    [kind |-> "StartElement", name |-> name, attr |-> attr, data |-> <<>>]
EndElement(name) ==
    [kind |-> "EndElement", name |-> name, attr |-> <<>>, data |-> <<>>]
CharData(data) ==
    [kind |-> "CharData", name |-> "", attr |-> <<>>, data |-> data]
Comment ==
    [kind |-> "Comment", name |-> "", attr |-> <<>>, data |-> <<>>]
A(name, value) == [name |-> name, value |-> value]

(***************************************************************************)
(* The parser state of one parseSVG call: heap holds the elements          *)
(* allocated by &svgElement{...}, root and the stack entries are pointers  *)
(* (indices into heap, 0 for nil).  Children holds element values: append  *)
(* (parent.Children, *elem) stores a copy of the element as it is at that  *)
(* moment.                                                                 *)
(***************************************************************************)
parserStart == [heap |-> <<>>, stack |-> <<>>, root |-> 0]

\* case xml.StartElement
parseStart(ps, t) ==
    LET elem == setAttributes(svgElement(t.name), t.attr)
        ptr  == Len(ps.heap) + 1
        heap == Append(ps.heap, elem)
    IN  IF Len(ps.stack) > 0
        THEN LET parent == ps.stack[Len(ps.stack)]
             IN  [heap  |-> [heap EXCEPT ![parent].Children = Append(@, elem)],
                  stack |-> Append(ps.stack, ptr),
                  root  |-> ps.root]
        ELSE [heap  |-> heap,
              stack |-> Append(ps.stack, ptr),
              root  |-> ptr]

\* case xml.EndElement
parseEnd(ps) ==
    IF Len(ps.stack) > 0
    THEN [ps EXCEPT !.stack = SubSeq(@, 1, Len(@) - 1)]
    ELSE ps

\* case xml.CharData
parseCharData(ps, t) ==
    IF Len(ps.stack) > 0 /\ TrimSpace(t.data) # <<>>
    THEN [ps EXCEPT !.heap[ps.stack[Len(ps.stack)]].Text = TrimSpace(t.data)]
    ELSE ps

\* the body of the token loop of parseSVG, for one token
parseToken(ps, t) ==
    CASE t.kind = "StartElement" -> parseStart(ps, t)
      [] t.kind = "EndElement"   -> parseEnd(ps)
      [] t.kind = "CharData"     -> parseCharData(ps, t)
      [] OTHER                   -> ps

\* parseSVG on a whole token stream: the parser state when Token fails
RECURSIVE parseTokens(_, _)
parseTokens(ps, tokens) ==
    IF tokens = <<>> THEN ps
    ELSE parseTokens(parseToken(ps, Head(tokens)), Tail(tokens))

(***************************************************************************)
(* rasterize: dimensions, rendering, encoding                              *)
(***************************************************************************)

DefaultWidth  == 800
DefaultHeight == 600

\* "Try to get from attributes": one axis, v the request's value
axisFromAttr(v, root, name) ==
    IF v = 0 /\ name \in DOMAIN root.Attributes
    THEN parseLength(root.Attributes[name])
    ELSE v

\* strings.Fields(viewBox), no field when the attribute is missing
viewBoxParts(root) ==
    IF "viewBox" \in DOMAIN root.Attributes
    THEN Fields(root.Attributes["viewBox"])
    ELSE <<>>

\* mutant of dimsFromViewBox: the viewBox is tried only when both axes are unset
dimsFromViewBoxBoth(w, h, root, parts) ==
    IF (w = 0 /\ h = 0) /\ "viewBox" \in DOMAIN root.Attributes /\ Len(parts) = 4
    THEN [width  |-> IF w = 0 THEN parseLength(parts[3]) ELSE w,
          height |-> IF h = 0 THEN parseLength(parts[4]) ELSE h]
    ELSE [width |-> w, height |-> h]

\* "Try viewBox if dimensions not set"
dimsFromViewBox(w, h, root, parts) ==
    IF (w = 0 \/ h = 0) /\ "viewBox" \in DOMAIN root.Attributes /\ Len(parts) = 4
    THEN [width  |-> IF w = 0 THEN parseLength(parts[3]) ELSE w,
          height |-> IF h = 0 THEN parseLength(parts[4]) ELSE h]
    ELSE [width |-> w, height |-> h]

\* "Default dimensions"
dimsDefault(d) ==
    [width  |-> IF d.width = 0 THEN DefaultWidth ELSE d.width,
     height |-> IF d.height = 0 THEN DefaultHeight ELSE d.height]

\* getSVGDimensions extracts width and height from SVG
getSVGDimensions(root, opts) ==
    dimsDefault(dimsFromViewBox(axisFromAttr(opts.Width, root, "width"),
                                axisFromAttr(opts.Height, root, "height"),
                                root, viewBoxParts(root)))

\* renderRect renders a rectangle.  rs is [img, rast]: the image and the
\* rasterizer that renderElement passes down.
rectOf(x, y, w, h) == Rect(x, y, I64(x + w), I64(y + h))

\* mutant of renderRect: the fill replaces the pixels (draw.Src)
renderRectSrc(elem, rs) ==
    [rs EXCEPT !.img =
        drawUniform(@, rectOf(parseLength(Attr(elem, "x")),
                              parseLength(Attr(elem, "y")),
                              parseLength(Attr(elem, "width")),
                              parseLength(Attr(elem, "height"))),
                    parseColor(Attr(elem, "fill")), "src")]

renderRect(elem, rs) ==
    [rs EXCEPT !.img =
        drawUniform(@, rectOf(parseLength(Attr(elem, "x")),
                              parseLength(Attr(elem, "y")),
                              parseLength(Attr(elem, "width")),
                              parseLength(Attr(elem, "height"))),
                    parseColor(Attr(elem, "fill")), "over")]

\* the rasterizer after Reset, DrawOp = draw.Over and the path added
drawn(img, rast, acc, c) ==
    [img |-> rasterizerDraw(img, rast, acc, c), rast |-> acc]

drawAndKeep(img, rast, c) ==
    IF rast.panicked THEN [img |-> img, rast |-> rast]
    ELSE drawn(img, rast, accumulateMask(rast), c)

\* renderCircle renders a circle
renderCircle(elem, rs) ==
    drawAndKeep(rs.img,
                drawCircle(rasterizerReset(Dx(rs.img.Rect), Dy(rs.img.Rect)),
                           F32(parseLength(Attr(elem, "cx")), 0),
                           F32(parseLength(Attr(elem, "cy")), 0),
                           F32(parseLength(Attr(elem, "r")), 0)),
                parseColor(Attr(elem, "fill")))

\* mutant of renderLine: the path is added to the rasterizer as the shape
\* before left it, without the Reset
renderLineWithoutReset(elem, rs) ==
    drawAndKeep(rs.img,
                LineTo(MoveTo(rs.rast,
                              Vec2(F32(parseLength(Attr(elem, "x1")), 0),
                                   F32(parseLength(Attr(elem, "y1")), 0))),
                       Vec2(F32(parseLength(Attr(elem, "x2")), 0),
                            F32(parseLength(Attr(elem, "y2")), 0))),
                parseColor(Attr(elem, "stroke")))

\* renderLine renders a line
renderLine(elem, rs) ==
    drawAndKeep(rs.img,
                LineTo(MoveTo(rasterizerReset(Dx(rs.img.Rect), Dy(rs.img.Rect)),
                              Vec2(F32(parseLength(Attr(elem, "x1")), 0),
                                   F32(parseLength(Attr(elem, "y1")), 0))),
                       Vec2(F32(parseLength(Attr(elem, "x2")), 0),
                            F32(parseLength(Attr(elem, "y2")), 0))),
                parseColor(Attr(elem, "stroke")))

\* the switch of renderElement
RECURSIVE renderElement(_, _)
RECURSIVE renderChildren(_, _)
renderByTag(elem, rs) ==
    CASE elem.Tag = "svg"    -> renderChildren(elem.Children, rs)
      [] elem.Tag = "rect"   -> renderRect(elem, rs)
      [] elem.Tag = "circle" -> renderCircle(elem, rs)
      [] elem.Tag = "line"   -> renderLine(elem, rs)
      [] elem.Tag = "g"      -> renderChildren(elem.Children, rs)
      [] elem.Tag = "text"   -> rs
      [] elem.Tag = "path"   -> rs
      [] OTHER               -> renderChildren(elem.Children, rs)

\* renderElement renders an SVG element to the image; nothing more is
\* rendered once the rasterizer has panicked
renderElement(elem, rs) ==
    IF rs.rast.panicked THEN rs ELSE renderByTag(elem, rs)

\* for _, child := range elem.Children { renderElement(&child, ...) }
renderChildren(children, rs) ==
    IF children = <<>> THEN rs
    ELSE renderChildren(Tail(children), renderElement(Head(children), rs))

\* the quality rasterize hands to jpeg.Encode
DefaultQuality == 90
MinQuality == 1
MaxQuality == 100

\* mutant of qualityDefault: a quality of 0 is not replaced
qualityDefaultKept(q) == q

qualityDefault(q) == IF q = 0 THEN DefaultQuality ELSE q
qualityAtLeast(q) == IF q < MinQuality THEN MinQuality ELSE q
qualityAtMost(q)  == IF q > MaxQuality THEN MaxQuality ELSE q

jpegQuality(q) == qualityAtMost(qualityAtLeast(qualityDefault(q)))

\* jpegOpts := &jpeg.Options{Quality: quality}
jpegOptions(opts) == [Quality |-> jpegQuality(opts.Quality)]

\* what an encoder returns: the byte stream it wrote, kept as what it was
\* computed from, and its error
encoded(data) == [data |-> data, err |-> Nil]
refused(err) == [data |-> Nil, err |-> err]

\* png.Encode: an image without pixels or with a side of 2^32 or more is an
\* invalid image size
encodePNG(img) ==
    IF \/ Dx(img.Rect) <= 0 \/ Dy(img.Rect) <= 0
       \/ bitLen(Dx(img.Rect)) > 32 \/ bitLen(Dy(img.Rect)) > 32
    THEN refused(<<"png: invalid format: invalid image size: ",
                   Dx(img.Rect), "x", Dy(img.Rect)>>)
    ELSE encoded([format |-> "png", quality |-> 0, img |-> img])

\* jpeg.Encode with o = jpegOpts: an image with a side of 1<<16 or more is
\* too large; the encoder takes a quality below 1 for 1 and one above 100
\* for 100
encodeJPEG(img, o) ==
    IF Dx(img.Rect) >= 65536 \/ Dy(img.Rect) >= 65536
    THEN refused("jpeg: image is too large to encode")
    ELSE encoded([format |-> "jpeg",
                  quality |-> Max2(1, Min2(100, o.Quality)),
                  img |-> img])

\* if err := ...Encode(...); err != nil { return nil, fmt.Errorf(... %w) }
\* return buf.Bytes(), nil
wrapped(what, r) ==
    IF r.err # Nil THEN refused(<<what, r.err>>) ELSE r

\* mutant of encode: the PNG encoder's output depends on the quality too
encodeAllWithQuality(img, opts, o) ==
    CASE opts.Format = FormatPNG ->
            IF encodePNG(img).err # Nil
            THEN wrapped("failed to encode PNG: ", encodePNG(img))
            ELSE encoded([format |-> "png",
                          quality |-> jpegQuality(opts.Quality), img |-> img])
      [] opts.Format = FormatJPEG ->
            wrapped("failed to encode JPEG: ", encodeJPEG(img, o))
      [] OTHER -> refused(<<"unsupported format: ", opts.Format>>)

\* the switch on opts.Format at the end of rasterize: (bytes, error); o is
\* jpegOpts
encode(img, opts, o) ==
    CASE opts.Format = FormatPNG ->
            wrapped("failed to encode PNG: ", encodePNG(img))
      [] opts.Format = FormatJPEG ->
            wrapped("failed to encode JPEG: ", encodeJPEG(img, o))
      [] OTHER -> refused(<<"unsupported format: ", opts.Format>>)

(***************************************************************************)
(* Inputs: documents (the text, and the tokens xml.Decoder.Token returns   *)
(* for it before its first error or the end of input) and export options.  *)
(***************************************************************************)

\* the document <svg width='4' height='4'><rect x='1' y='1' width='2' height='2' fill='#f00'/></svg>
DocRect ==
    [text |-> "<svg width='4' height='4'><rect x='1' y='1' width='2' height='2' fill='#f00'/></svg>",
     tokens |-> <<
        StartElement("svg", <<A("width", <<"4">>), A("height", <<"4">>)>>),
        StartElement("rect", <<A("x", <<"1">>), A("y", <<"1">>), A("width", <<"2">>), A("height", <<"2">>), A("fill", <<"#","f","0","0">>)>>),
        EndElement("rect"),
        EndElement("svg")>>]

\* the document <svg width='4' height='4'><g><rect x='1' y='1' width='2' height='2' fill='#f00'/></g></svg>
DocGroup ==
    [text |-> "<svg width='4' height='4'><g><rect x='1' y='1' width='2' height='2' fill='#f00'/></g></svg>",
     tokens |-> <<
        StartElement("svg", <<A("width", <<"4">>), A("height", <<"4">>)>>),
        StartElement("g", <<>>),
        StartElement("rect", <<A("x", <<"1">>), A("y", <<"1">>), A("width", <<"2">>), A("height", <<"2">>), A("fill", <<"#","f","0","0">>)>>),
        EndElement("rect"),
        EndElement("g"),
        EndElement("svg")>>]

\* the document <svg width='4' height='4'><g><text><rect x='1' y='1' width='2' height='2' fill='#f00'/></text></g></svg>
DocNested ==
    [text |-> "<svg width='4' height='4'><g><text><rect x='1' y='1' width='2' height='2' fill='#f00'/></text></g></svg>",
     tokens |-> <<
        StartElement("svg", <<A("width", <<"4">>), A("height", <<"4">>)>>),
        StartElement("g", <<>>),
        StartElement("text", <<>>),
        StartElement("rect", <<A("x", <<"1">>), A("y", <<"1">>), A("width", <<"2">>), A("height", <<"2">>), A("fill", <<"#","f","0","0">>)>>),
        EndElement("rect"),
        EndElement("text"),
        EndElement("g"),
        EndElement("svg")>>]

\* the document <svg width='4' height='4'><text>hi<rect x='0' y='0' width='1' height='1' fill='blue'/></text></svg>
DocText ==
    [text |-> "<svg width='4' height='4'><text>hi<rect x='0' y='0' width='1' height='1' fill='blue'/></text></svg>",
     tokens |-> <<
        StartElement("svg", <<A("width", <<"4">>), A("height", <<"4">>)>>),
        StartElement("text", <<>>),
        CharData(<<"h","i">>),
        StartElement("rect", <<A("x", <<"0">>), A("y", <<"0">>), A("width", <<"1">>), A("height", <<"1">>), A("fill", <<"b","l","u","e">>)>>),
        EndElement("rect"),
        EndElement("text"),
        EndElement("svg")>>]

\* the document <svg width='4' height='4'><defs><rect x='2' y='2' width='1' height='1' fill='green'/></defs></svg>
DocDefs ==
    [text |-> "<svg width='4' height='4'><defs><rect x='2' y='2' width='1' height='1' fill='green'/></defs></svg>",
     tokens |-> <<
        StartElement("svg", <<A("width", <<"4">>), A("height", <<"4">>)>>),
        StartElement("defs", <<>>),
        StartElement("rect", <<A("x", <<"2">>), A("y", <<"2">>), A("width", <<"1">>), A("height", <<"1">>), A("fill", <<"g","r","e","e","n">>)>>),
        EndElement("rect"),
        EndElement("defs"),
        EndElement("svg")>>]

\* the document (empty)
DocEmpty ==
    [text |-> "",
     tokens |-> <<
        >>]

\* the document hello
DocNoTag ==
    [text |-> "hello",
     tokens |-> <<
        CharData(<<"h","e","l","l","o">>)>>]

\* the document <svg width='4' height='4'> <rect x='1' y='0' width='2' height='1' fill='black'/>
DocUnclosed ==
    [text |-> "<svg width='4' height='4'> <rect x='1' y='0' width='2' height='1' fill='black'/>",
     tokens |-> <<
        StartElement("svg", <<A("width", <<"4">>), A("height", <<"4">>)>>),
        CharData(<<" ">>),
        StartElement("rect", <<A("x", <<"1">>), A("y", <<"0">>), A("width", <<"2">>), A("height", <<"1">>), A("fill", <<"b","l","a","c","k">>)>>),
        EndElement("rect")>>]

\* the document <svg width='4' height='4'><rect x='0' y='0' width='1' height='1' fill='red'/></g><rect x='2' y='2' width='1' height='1' fill='red'/></svg>
DocMismatch ==
    [text |-> "<svg width='4' height='4'><rect x='0' y='0' width='1' height='1' fill='red'/></g><rect x='2' y='2' width='1' height='1' fill='red'/></svg>",
     tokens |-> <<
        StartElement("svg", <<A("width", <<"4">>), A("height", <<"4">>)>>),
        StartElement("rect", <<A("x", <<"0">>), A("y", <<"0">>), A("width", <<"1">>), A("height", <<"1">>), A("fill", <<"r","e","d">>)>>),
        EndElement("rect")>>]

\* the document <svg width='4' height='4'><rect x='0' y='0' width='4' height='4' fill='red'/></svg><svg width='2' height='2'/>
DocTwoRoots ==
    [text |-> "<svg width='4' height='4'><rect x='0' y='0' width='4' height='4' fill='red'/></svg><svg width='2' height='2'/>",
     tokens |-> <<
        StartElement("svg", <<A("width", <<"4">>), A("height", <<"4">>)>>),
        StartElement("rect", <<A("x", <<"0">>), A("y", <<"0">>), A("width", <<"4">>), A("height", <<"4">>), A("fill", <<"r","e","d">>)>>),
        EndElement("rect"),
        EndElement("svg"),
        StartElement("svg", <<A("width", <<"2">>), A("height", <<"2">>)>>),
        EndElement("svg")>>]

\* the document <svg width='4' height='4'><rect x='0' y='0' width='3' height='3' fill='red'/><rect x='2' y='2' width='2' height='2' fill='#0000ff'/></svg>
DocOverlap ==
    [text |-> "<svg width='4' height='4'><rect x='0' y='0' width='3' height='3' fill='red'/><rect x='2' y='2' width='2' height='2' fill='#0000ff'/></svg>",
     tokens |-> <<
        StartElement("svg", <<A("width", <<"4">>), A("height", <<"4">>)>>),
        StartElement("rect", <<A("x", <<"0">>), A("y", <<"0">>), A("width", <<"3">>), A("height", <<"3">>), A("fill", <<"r","e","d">>)>>),
        EndElement("rect"),
        StartElement("rect", <<A("x", <<"2">>), A("y", <<"2">>), A("width", <<"2">>), A("height", <<"2">>), A("fill", <<"#","0","0","0","0","f","f">>)>>),
        EndElement("rect"),
        EndElement("svg")>>]

\* the document <svg><rect x='1' y='1' width='2' height='2' fill='blue'/></svg>
DocNoDims ==
    [text |-> "<svg><rect x='1' y='1' width='2' height='2' fill='blue'/></svg>",
     tokens |-> <<
        StartElement("svg", <<>>),
        StartElement("rect", <<A("x", <<"1">>), A("y", <<"1">>), A("width", <<"2">>), A("height", <<"2">>), A("fill", <<"b","l","u","e">>)>>),
        EndElement("rect"),
        EndElement("svg")>>]

\* the document <svg viewBox='0 0 5 3'><rect x='4' y='2' width='3' height='3' fill='#00ff00'/></svg>
DocViewBox ==
    [text |-> "<svg viewBox='0 0 5 3'><rect x='4' y='2' width='3' height='3' fill='#00ff00'/></svg>",
     tokens |-> <<
        StartElement("svg", <<A("viewBox", <<"0"," ","0"," ","5"," ","3">>)>>),
        StartElement("rect", <<A("x", <<"4">>), A("y", <<"2">>), A("width", <<"3">>), A("height", <<"3">>), A("fill", <<"#","0","0","f","f","0","0">>)>>),
        EndElement("rect"),
        EndElement("svg")>>]

\* the document <svg width='-4' height='4'><rect x='-2' y='1' width='1' height='1' fill='red'/></svg>
DocNegWidth ==
    [text |-> "<svg width='-4' height='4'><rect x='-2' y='1' width='1' height='1' fill='red'/></svg>",
     tokens |-> <<
        StartElement("svg", <<A("width", <<"-","4">>), A("height", <<"4">>)>>),
        StartElement("rect", <<A("x", <<"-","2">>), A("y", <<"1">>), A("width", <<"1">>), A("height", <<"1">>), A("fill", <<"r","e","d">>)>>),
        EndElement("rect"),
        EndElement("svg")>>]

\* the document <svg width='-4' height='-4'><rect x='-2' y='-2' width='1' height='1' fill='red'/></svg>
DocNegBoth ==
    [text |-> "<svg width='-4' height='-4'><rect x='-2' y='-2' width='1' height='1' fill='red'/></svg>",
     tokens |-> <<
        StartElement("svg", <<A("width", <<"-","4">>), A("height", <<"-","4">>)>>),
        StartElement("rect", <<A("x", <<"-","2">>), A("y", <<"-","2">>), A("width", <<"1">>), A("height", <<"1">>), A("fill", <<"r","e","d">>)>>),
        EndElement("rect"),
        EndElement("svg")>>]

\* the document <rect x='1' y='1' width='2' height='2' fill='green'/>
DocRootRect ==
    [text |-> "<rect x='1' y='1' width='2' height='2' fill='green'/>",
     tokens |-> <<
        StartElement("rect", <<A("x", <<"1">>), A("y", <<"1">>), A("width", <<"2">>), A("height", <<"2">>), A("fill", <<"g","r","e","e","n">>)>>),
        EndElement("rect")>>]

\* the document <svg width='4px' height='4.9'><!--c--><rect x='abc' width='2' height='-1' fill='none'/><rect y='1' width='9' height='1' fill='teal'/>\n</svg>
DocBadAttrs ==
    [text |-> "<svg width='4px' height='4.9'><!--c--><rect x='abc' width='2' height='-1' fill='none'/><rect y='1' width='9' height='1' fill='teal'/>\n</svg>",
     tokens |-> <<
        StartElement("svg", <<A("width", <<"4","p","x">>), A("height", <<"4",".","9">>)>>),
        Comment,
        StartElement("rect", <<A("x", <<"a","b","c">>), A("width", <<"2">>), A("height", <<"-","1">>), A("fill", <<"n","o","n","e">>)>>),
        EndElement("rect"),
        StartElement("rect", <<A("y", <<"1">>), A("width", <<"9">>), A("height", <<"1">>), A("fill", <<"t","e","a","l">>)>>),
        EndElement("rect"),
        CharData(<<"\n">>),
        EndElement("svg")>>]

\* the document <svg width='4' height='4'><circle cx='2' cy='2' r='1'/><line x1='0' y1='0' x2='3' y2='3' stroke='none'/><rect x='0' y='0' width='2' height='2' fill=''/></svg>
DocUnpainted ==
    [text |-> "<svg width='4' height='4'><circle cx='2' cy='2' r='1'/><line x1='0' y1='0' x2='3' y2='3' stroke='none'/><rect x='0' y='0' width='2' height='2' fill=''/></svg>",
     tokens |-> <<
        StartElement("svg", <<A("width", <<"4">>), A("height", <<"4">>)>>),
        StartElement("circle", <<A("cx", <<"2">>), A("cy", <<"2">>), A("r", <<"1">>)>>),
        EndElement("circle"),
        StartElement("line", <<A("x1", <<"0">>), A("y1", <<"0">>), A("x2", <<"3">>), A("y2", <<"3">>), A("stroke", <<"n","o","n","e">>)>>),
        EndElement("line"),
        StartElement("rect", <<A("x", <<"0">>), A("y", <<"0">>), A("width", <<"2">>), A("height", <<"2">>), A("fill", <<>>)>>),
        EndElement("rect"),
        EndElement("svg")>>]

\* the document <svg width='65536' height='1'><rect x='0' y='0' width='2' height='1' fill='red'/></svg>
DocWide ==
    [text |-> "<svg width='65536' height='1'><rect x='0' y='0' width='2' height='1' fill='red'/></svg>",
     tokens |-> <<
        StartElement("svg", <<A("width", <<"6","5","5","3","6">>), A("height", <<"1">>)>>),
        StartElement("rect", <<A("x", <<"0">>), A("y", <<"0">>), A("width", <<"2">>), A("height", <<"1">>), A("fill", <<"r","e","d">>)>>),
        EndElement("rect"),
        EndElement("svg")>>]

Docs ==
    {DocUnpainted, DocRect, DocGroup, DocNested, DocText,
     DocDefs, DocEmpty, DocNoTag, DocUnclosed,
     DocMismatch, DocTwoRoots, DocOverlap, DocNoDims,
     DocViewBox, DocNegWidth, DocNegBoth, DocRootRect,
     DocBadAttrs, DocWide}

Formats   == {FormatSVG, FormatPNG, FormatJPEG, "gif"}
Widths    == {0, 3}
Heights   == {0, 3}
Qualities == {-5, 0, 1, 50, 90, 100, 101, 150}
DPIs      == {0, 96}

\* ExportOptions
Options ==
    [Format : Formats, Width : Widths, Height : Heights,
     Quality : Qualities, DPI : DPIs]

(***************************************************************************)
(* One Export call.  pc is the call's position:                            *)
(*   idle -> parse -> dimensions -> canvas -> render -> encode -> done,    *)
(* "done" with ret = [data, err] the returned pair, "panic" when the call  *)
(* ended in a run-time panic.                                              *)
(***************************************************************************)
IdleCall ==
    [pc      |-> "idle",
     svgData |-> Nil,           \* the input document
     opts    |-> Nil,           \* the export options
     decoder |-> <<>>,          \* the tokens the decoder has yet to return
     ps      |-> parserStart,   \* parseSVG's heap, stack and root
     width   |-> 0,
     height  |-> 0,
     rs      |-> Nil,           \* [img, rast]: the image and the rasterizer
     jpegOpts |-> Nil,          \* the options the JPEG encoder is handed
     ret     |-> Nil]

\* the element root points to
RootOf(call) == call.ps.heap[call.ps.root]

\* mutant of Export: the passthrough format validates the document first
ExportValidated(c) ==
    /\ calls[c].pc = "idle"
    /\ \E doc \in Docs, o \in Options :
          calls' = [calls EXCEPT ![c] =
              IF o.Format = FormatSVG
              THEN [@ EXCEPT !.pc = "done", !.svgData = doc, !.opts = o,
                             !.ret = IF parseTokens(parserStart, doc.tokens).root = 0
                                     THEN [data |-> Nil,
                                           err  |-> <<"failed to parse SVG: ",
                                                      "no SVG root element found">>]
                                     ELSE [data |-> doc.text, err |-> Nil]]
              ELSE [@ EXCEPT !.pc = "parse", !.svgData = doc, !.opts = o,
                             !.decoder = doc.tokens]]
    /\ UNCHANGED <<unit, goarch>>

\* Export converts SVG to the specified format
Export(c) ==
    /\ calls[c].pc = "idle"
    /\ \E doc \in Docs, o \in Options :
          calls' = [calls EXCEPT ![c] =
              IF o.Format = FormatSVG
              THEN [@ EXCEPT !.pc = "done", !.svgData = doc, !.opts = o,
                             !.ret = [data |-> doc.text, err |-> Nil]]
              ELSE [@ EXCEPT !.pc = "parse", !.svgData = doc, !.opts = o,
                             !.decoder = doc.tokens]]
    /\ UNCHANGED <<unit, goarch>>

\* parseSVG: one turn of the token loop
ParseToken(c) ==
    /\ calls[c].pc = "parse"
    /\ calls[c].decoder # <<>>
    /\ calls' = [calls EXCEPT ![c] =
          [@ EXCEPT !.ps = parseToken(@, Head(calls[c].decoder)),
                    !.decoder = Tail(@)]]
    /\ UNCHANGED <<unit, goarch>>

\* parseSVG: Token returned an error; rasterize then fails when root is nil
ParseEnd(c) ==
    /\ calls[c].pc = "parse"
    /\ calls[c].decoder = <<>>
    /\ calls' = [calls EXCEPT ![c] =
          IF calls[c].ps.root = 0
          THEN [@ EXCEPT !.pc = "done",
                         !.ret = [data |-> Nil,
                                  err  |-> <<"failed to parse SVG: ",
                                             "no SVG root element found">>]]
          ELSE [@ EXCEPT !.pc = "dimensions"]]
    /\ UNCHANGED <<unit, goarch>>

\* mutant of Dimensions: width and height are variables all calls share
DimensionsShared(c) ==
    /\ calls[c].pc = "dimensions"
    /\ calls' = [i \in DOMAIN calls |->
          IF i = c
          THEN [calls[i] EXCEPT
                  !.pc = "canvas",
                  !.width = getSVGDimensions(RootOf(calls[c]), calls[c].opts).width,
                  !.height = getSVGDimensions(RootOf(calls[c]), calls[c].opts).height]
          ELSE [calls[i] EXCEPT
                  !.width = getSVGDimensions(RootOf(calls[c]), calls[c].opts).width,
                  !.height = getSVGDimensions(RootOf(calls[c]), calls[c].opts).height]]
    /\ UNCHANGED <<unit, goarch>>

\* rasterize: Get dimensions
Dimensions(c) ==
    /\ calls[c].pc = "dimensions"
    /\ LET d == getSVGDimensions(RootOf(calls[c]), calls[c].opts)
       IN  calls' = [calls EXCEPT ![c] =
              [@ EXCEPT !.pc = "canvas", !.width = d.width, !.height = d.height]]
    /\ UNCHANGED <<unit, goarch>>

\* rasterize: Create image, fill with white background, create rasterizer
Canvas(c) ==
    /\ calls[c].pc = "canvas"
    /\ LET w   == calls[c].width
           h   == calls[c].height
           img == NewRGBA(Rect(0, 0, w, h))
       IN  calls' = [calls EXCEPT ![c] =
              IF Panicked(img) \/ rasterizerPanics(w, h)
              THEN [@ EXCEPT !.pc = "panic"]
              ELSE [@ EXCEPT !.pc = "render",
                             !.rs = [img  |-> drawUniform(img, img.Rect, White, "src"),
                                     rast |-> rasterizerReset(w, h)]]]
    /\ UNCHANGED <<unit, goarch>>

\* the call after renderElement has left rs: a panic of the rasterizer ends
\* it
rendered(call, rs) ==
    [call EXCEPT !.pc = IF rs.rast.panicked THEN "panic" ELSE "encode",
                 !.rs = rs]

\* rasterize: Render SVG elements
Render(c) ==
    /\ calls[c].pc = "render"
    /\ calls' = [calls EXCEPT ![c] =
          rendered(@, renderElement(RootOf(calls[c]), calls[c].rs))]
    /\ UNCHANGED <<unit, goarch>>

\* the call after the switch on opts.Format: jpegOpts is set in the JPEG case
\* only
encodedWith(call, o) ==
    [call EXCEPT !.pc = "done",
                 !.jpegOpts = IF call.opts.Format = FormatJPEG THEN o ELSE Nil,
                 !.ret = encode(call.rs.img, call.opts, o)]

\* rasterize: Encode to target format
Encode(c) ==
    /\ calls[c].pc = "encode"
    /\ calls' = [calls EXCEPT ![c] = encodedWith(@, jpegOptions(calls[c].opts))]
    /\ UNCHANGED <<unit, goarch>>

NoUnit == [fn |-> Nil, arg |-> Nil, done |-> TRUE, ret |-> Nil]

Init ==
    /\ goarch \in Builds
    /\ calls = <<IdleCall>>
    /\ unit = NoUnit

Next ==
    \/ \E c \in DOMAIN calls : Export(c)
    \/ \E c \in DOMAIN calls : ParseToken(c)
    \/ \E c \in DOMAIN calls : ParseEnd(c)
    \/ \E c \in DOMAIN calls : Dimensions(c)
    \/ \E c \in DOMAIN calls : Canvas(c)
    \/ \E c \in DOMAIN calls : Render(c)
    \/ \E c \in DOMAIN calls : Encode(c)

Spec == Init /\ [][Next]_vars

(***************************************************************************)
(* The helper functions, one call at a time: unit is [fn, arg, done, ret], *)
(* the function called, its argument, and its result once it has returned. *)
(* Each specification below draws the argument in its initial state.       *)
(***************************************************************************)

UnitCall(fn, arg) == [fn |-> fn, arg |-> arg, done |-> FALSE, ret |-> Nil]

\* all strings over the characters cs of length at most n
StringsUpTo(cs, n) == UNION {[1..k -> cs] : k \in 0..n}

\* s between a leading blank and a trailing tab
Padded(s) == <<" ">> \o s \o <<"\t">>

(*************************** parseColor ************************************)

MaxHexLen == 7

\* three hex digits of either case and one character that is no hex digit
HexChars == {"0", "c", "F", "g"}

HexTokens == {<<"#">> \o h : h \in StringsUpTo(HexChars, MaxHexLen)}

NameTokens ==
    {<<>>, <<"n","o","n","e">>, <<"w","h","i","t","e">>, <<"b","l","a","c","k">>,
     <<"r","e","d">>, <<"g","r","e","e","n">>, <<"b","l","u","e">>,
     <<"R","e","d">>, <<"N","O","N","E">>, <<"t","e","a","l">>,
     <<"f","f","0","0","0","0">>, <<"r","e","d","#">>, <<"n","o","n","e","#","f","f","f">>,
     <<"t","r","a","n","s","p","a","r","e","n","t">>, <<"r","g","b","(","0",")">>}

\* tokens with characters of more than one byte: red after a form feed,
\* #Fc0 between no-break spaces (U+00A0), # followed by a capital E with
\* acute (U+00C9) and ff00, # followed by a euro sign (U+20AC) and 00f
WideTokens ==
    {<<"\f","r","e","d">>,
     <<"xC2","xA0","#","F","c","0","xC2","xA0">>,
     <<"#","xC3","x89","f","f","0","0">>,
     <<"#","xE2","x82","xAC","0","0","f">>}

ColorInputs ==
    HexTokens \cup NameTokens \cup {Padded(s) : s \in NameTokens}
        \cup {Padded(<<"#","F","c","0">>), <<"#"," ","F","c","0">>}
        \cup WideTokens

CallParseColor ==
    /\ unit.fn = "parseColor" /\ ~unit.done
    /\ unit' = [unit EXCEPT !.done = TRUE, !.ret = parseColor(unit.arg)]
    /\ UNCHANGED <<calls, goarch>>

InitColor ==
    /\ goarch \in Builds
    /\ calls = <<>>
    /\ unit \in {UnitCall("parseColor", s) : s \in ColorInputs}

SpecColor == InitColor /\ [][CallParseColor]_vars

\* the colour token of the call: the argument without surrounding whitespace
ColorToken == TrimSpace(unit.arg)

ColorReturned == unit.fn = "parseColor" /\ unit.done

\* the value of a hexadecimal digit, -1 for any other character
HexDigitValue(c) ==
    CASE c = "0" -> 0 [] c = "1" -> 1 [] c = "2" -> 2 [] c = "3" -> 3
      [] c = "4" -> 4 [] c = "5" -> 5 [] c = "6" -> 6 [] c = "7" -> 7
      [] c = "8" -> 8 [] c = "9" -> 9
      [] c \in {"a", "A"} -> 10 [] c \in {"b", "B"} -> 11
      [] c \in {"c", "C"} -> 12 [] c \in {"d", "D"} -> 13
      [] c \in {"e", "E"} -> 14 [] c \in {"f", "F"} -> 15
      [] OTHER -> 0 - 1

\* the channel written as the two digits h[i], h[i+1]; 0 when either is no
\* hex digit
ExpectPair(h, i) ==
    IF HexDigitValue(h[i]) >= 0 /\ HexDigitValue(h[i + 1]) >= 0
    THEN 16 * HexDigitValue(h[i]) + HexDigitValue(h[i + 1])
    ELSE 0

\* the channel written as the one digit h[i], duplicated; 0 when it is no
\* hex digit
ExpectNibble(h, i) ==
    IF HexDigitValue(h[i]) >= 0 THEN 17 * HexDigitValue(h[i]) ELSE 0

\* C5: for a colour token that starts with '#', six digits give the channels
\* they write, three digits give each digit duplicated (value * 17), a
\* segment that is no valid hex gives 0 for its channel, any other length
\* gives 0 for every channel, and alpha is 255 in each of these cases.
C5_HexColors ==
    (ColorReturned /\ ColorToken # <<>> /\ ColorToken[1] = "#") =>
        LET h == Tail(ColorToken)
        IN  /\ unit.ret.A = 255
            /\ Len(h) = 6 =>
                  /\ unit.ret.R = ExpectPair(h, 1)
                  /\ unit.ret.G = ExpectPair(h, 3)
                  /\ unit.ret.B = ExpectPair(h, 5)
            /\ Len(h) = 3 =>
                  /\ unit.ret.R = ExpectNibble(h, 1)
                  /\ unit.ret.G = ExpectNibble(h, 2)
                  /\ unit.ret.B = ExpectNibble(h, 3)
            /\ Len(h) \notin {3, 6} =>
                  unit.ret.R = 0 /\ unit.ret.G = 0 /\ unit.ret.B = 0

\* C5 witness: " #Fc0\t" has returned (255, 204, 0, 255)
C5_Witness ==
    /\ ColorReturned
    /\ unit.arg = Padded(<<"#","F","c","0">>)
    /\ unit.ret = RGBA(255, 204, 0, 255)

KnownNames ==
    {<<"w","h","i","t","e">>, <<"b","l","a","c","k">>, <<"r","e","d">>,
     <<"g","r","e","e","n">>, <<"b","l","u","e">>}

\* C6: parseColor always returns a colour: the empty token and none give
\* fully transparent, white, black, red, green and blue their pure opaque
\* values, and every other token that does not start with '#' opaque black.
C6_NamedColors ==
    ColorReturned =>
        /\ unit.ret \in [R : 0..255, G : 0..255, B : 0..255, A : 0..255]
        /\ ColorToken \in {<<>>, <<"n","o","n","e">>} => unit.ret = RGBA(0, 0, 0, 0)
        /\ ColorToken = <<"w","h","i","t","e">> => unit.ret = RGBA(255, 255, 255, 255)
        /\ ColorToken = <<"b","l","a","c","k">> => unit.ret = RGBA(0, 0, 0, 255)
        /\ ColorToken = <<"r","e","d">> => unit.ret = RGBA(255, 0, 0, 255)
        /\ ColorToken = <<"g","r","e","e","n">> => unit.ret = RGBA(0, 255, 0, 255)
        /\ ColorToken = <<"b","l","u","e">> => unit.ret = RGBA(0, 0, 255, 255)
        /\ ( /\ ColorToken \notin KnownNames \cup {<<>>, <<"n","o","n","e">>}
             /\ ColorToken[1] # "#" ) => unit.ret = RGBA(0, 0, 0, 255)

\* C6 witness: the unknown name teal has returned opaque black
C6_Witness ==
    /\ ColorReturned
    /\ unit.arg = <<"t","e","a","l">>
    /\ unit.ret = RGBA(0, 0, 0, 255)

(*************** ParseFormat, GetMimeType, GetFileExtension ****************)

\* the capital of a lower-case letter
Capital(c) == UpperLetters[CHOOSE k \in 1..26 : LowerLetters[k] = c]

\* every way to capitalise the letters of the lower-case string s
Casings(s) ==
    {[i \in 1..Len(s) |-> IF up[i] THEN Capital(s[i]) ELSE s[i]] :
        up \in [1..Len(s) -> BOOLEAN]}

FormatNames ==
    {<<"s","v","g">>, <<"p","n","g">>, <<"j","p","e","g">>, <<"j","p","g">>}

OtherNames ==
    {<<>>, <<"g","i","f">>, <<"s","v","g","z">>, <<"j","p","e">>, <<"b","m","p">>,
     <<"p","n","g","8">>, <<".","p","n","g">>, <<"j","p"," ","g">>,
     <<"i","m","a","g","e","/","p","n","g">>, <<"J","P","E","G","2","0","0","0">>}

\* names with characters of more than one byte: png after a form feed, jpg
\* before a no-break space (U+00A0), SVG before an em space (U+2003), a
\* capital E with acute (U+00C9), and jpe before it
WideNames ==
    {<<"\f","p","n","g">>, <<"j","p","g","xC2","xA0">>,
     <<"S","V","G","xE2","x80","x83">>, <<"xC3","x89">>,
     <<"j","p","e","xC3","x89">>}

FormatInputs ==
    LET names == UNION {Casings(s) : s \in FormatNames} \cup OtherNames
    IN  names \cup {Padded(s) : s \in names} \cup WideNames

\* ExportFormat values: the three constants, the zero value and another string
FormatValues == {FormatSVG, FormatPNG, FormatJPEG, "", "gif", "jpg", "PNG"}

CallParseFormat ==
    /\ unit.fn = "ParseFormat" /\ ~unit.done
    /\ unit' = [unit EXCEPT !.done = TRUE, !.ret = ParseFormat(unit.arg)]
    /\ UNCHANGED <<calls, goarch>>

CallGetMimeType ==
    /\ unit.fn = "GetMimeType" /\ ~unit.done
    /\ unit' = [unit EXCEPT !.done = TRUE, !.ret = GetMimeType(unit.arg)]
    /\ UNCHANGED <<calls, goarch>>

CallGetFileExtension ==
    /\ unit.fn = "GetFileExtension" /\ ~unit.done
    /\ unit' = [unit EXCEPT !.done = TRUE, !.ret = GetFileExtension(unit.arg)]
    /\ UNCHANGED <<calls, goarch>>

InitFormat ==
    /\ goarch \in Builds
    /\ calls = <<>>
    /\ unit \in {UnitCall("ParseFormat", s) : s \in FormatInputs}
            \cup {UnitCall("GetMimeType", f) : f \in FormatValues}
            \cup {UnitCall("GetFileExtension", f) : f \in FormatValues}

NextFormat == CallParseFormat \/ CallGetMimeType \/ CallGetFileExtension

SpecFormat == InitFormat /\ [][NextFormat]_vars

\* the format name of the call: the argument without surrounding whitespace
FormatToken == TrimSpace(unit.arg)

\* C8: ParseFormat is case-insensitive: any casing of svg, png, jpeg, jpg
\* returns FormatSVG, FormatPNG, FormatJPEG, FormatJPEG with no error, and
\* every other token returns an unknown-format error and the empty format.
C8_ParseFormat ==
    (unit.fn = "ParseFormat" /\ unit.done) =>
        /\ FormatToken \in Casings(<<"s","v","g">>) =>
              unit.ret.format = "svg" /\ unit.ret.err = Nil
        /\ FormatToken \in Casings(<<"p","n","g">>) =>
              unit.ret.format = "png" /\ unit.ret.err = Nil
        /\ FormatToken \in Casings(<<"j","p","e","g">>) \cup Casings(<<"j","p","g">>) =>
              unit.ret.format = "jpeg" /\ unit.ret.err = Nil
        /\ FormatToken \notin UNION {Casings(s) : s \in FormatNames} =>
              /\ unit.ret.format = ""
              /\ unit.ret.err # Nil
              /\ unit.ret.err[1] = "unknown format: "

\* C8 witness: "JpG" has parsed to FormatJPEG
C8_Witness ==
    /\ unit.fn = "ParseFormat" /\ unit.done
    /\ unit.arg = <<"J","p","G">>
    /\ unit.ret = [format |-> "jpeg", err |-> Nil]

\* C9: GetMimeType gives image/svg+xml, image/png, image/jpeg and
\* GetFileExtension gives .svg, .png, .jpg for the three formats; for any
\* other format value they give application/octet-stream and .bin.
C9_FormatMetadata ==
    /\ (unit.fn = "GetMimeType" /\ unit.done) =>
          /\ unit.arg = "svg"  => unit.ret = "image/svg+xml"
          /\ unit.arg = "png"  => unit.ret = "image/png"
          /\ unit.arg = "jpeg" => unit.ret = "image/jpeg"
          /\ unit.arg \notin {"svg", "png", "jpeg"} =>
                unit.ret = "application/octet-stream"
    /\ (unit.fn = "GetFileExtension" /\ unit.done) =>
          /\ unit.arg = "svg"  => unit.ret = ".svg"
          /\ unit.arg = "png"  => unit.ret = ".png"
          /\ unit.arg = "jpeg" => unit.ret = ".jpg"
          /\ unit.arg \notin {"svg", "png", "jpeg"} => unit.ret = ".bin"

\* C9 witness: GetFileExtension(FormatJPEG) has returned .jpg
C9_Witness ==
    /\ unit.fn = "GetFileExtension" /\ unit.done
    /\ unit.arg = FormatJPEG
    /\ unit.ret = ".jpg"

(********************** claims about the export pipeline *******************)

Done(c) == calls[c].pc = "done"

\* C1: Export with FormatSVG returns exactly the input text and no error for
\* every input text (empty and malformed ones included) and every Width,
\* Height, Quality and DPI, and attempts no parsing.
C1_Passthrough ==
    \A c \in DOMAIN calls :
        (Done(c) /\ calls[c].opts.Format = FormatSVG) =>
            /\ calls[c].ret.data = calls[c].svgData.text
            /\ calls[c].ret.err = Nil
            /\ calls[c].ps = parserStart
            /\ calls[c].decoder = <<>>

\* C1 witness: a malformed document exported as svg with a size and an
\* out-of-range quality comes back as written
C1_Witness ==
    \E c \in DOMAIN calls :
        /\ Done(c)
        /\ calls[c].opts.Format = FormatSVG
        /\ calls[c].opts.Width = 3 /\ calls[c].opts.Quality = 150
        /\ calls[c].svgData = DocMismatch
        /\ calls[c].ret.data = DocMismatch.text

Raster(c) == calls[c].opts.Format \in {FormatPNG, FormatJPEG}

\* C2: in a raster export a rectangle nested inside an unsupported tag (text)
\* that is nested inside a group under the root is painted on the canvas.
C2_NestedRectPainted ==
    \A c \in DOMAIN calls :
        (Done(c) /\ Raster(c) /\ calls[c].svgData = DocNested) =>
            At(calls[c].ret.data.img, <<1, 1>>) = RGBA(255, 0, 0, 255)

\* the quality the encoder is to get for a requested quality
ExpectQuality(q) ==
    IF q = 0 THEN 90 ELSE IF q < 1 THEN 1 ELSE IF q > 100 THEN 100 ELSE q

\* the encoder's error, as rasterize returns it for a canvas with a side of
\* 1<<16 or more
JpegTooLarge == <<"failed to encode JPEG: ", "jpeg: image is too large to encode">>

\* C7: in a JPEG export the quality handed to the encoder is in [1, 100]:
\* 0 is replaced by 90, any other value below 1 becomes 1, any value above 100
\* becomes 100, and values in [1, 100] are used unchanged.  The output is the
\* canvas encoded with that quality, unless the encoder refuses the canvas
\* for its size.
C7_JpegQuality ==
    \A c \in DOMAIN calls :
        (Done(c) /\ calls[c].opts.Format = FormatJPEG /\ calls[c].ps.root # 0) =>
            /\ calls[c].jpegOpts.Quality \in 1..100
            /\ calls[c].jpegOpts.Quality = ExpectQuality(calls[c].opts.Quality)
            /\ (calls[c].width < 65536 /\ calls[c].height < 65536) =>
                  calls[c].ret =
                      [data |-> [format |-> "jpeg",
                                 quality |-> calls[c].jpegOpts.Quality,
                                 img |-> calls[c].rs.img],
                       err  |-> Nil]
            /\ (calls[c].width >= 65536 \/ calls[c].height >= 65536) =>
                  calls[c].ret = [data |-> Nil, err |-> JpegTooLarge]

\* C7 witness: a JPEG export with quality 0 has handed the encoder quality 90
\* and returned the canvas encoded with it
C7_Witness ==
    \E c \in DOMAIN calls :
        /\ Done(c)
        /\ calls[c].opts.Format = FormatJPEG
        /\ calls[c].opts.Quality = 0
        /\ calls[c].ps.root # 0
        /\ calls[c].jpegOpts = [Quality |-> 90]
        /\ calls[c].ret.err = Nil
        /\ calls[c].ret.data.quality = 90

\* C12: Export with a format that is none of svg, png, jpeg fails with an
\* unknown/unsupported-format error for every input text, including text in
\* which no root element can be found.
C12_UnsupportedFormat ==
    \A c \in DOMAIN calls :
        (Done(c) /\ calls[c].opts.Format \notin {FormatSVG, FormatPNG, FormatJPEG}) =>
            calls[c].ret.err = <<"unsupported format: ", calls[c].opts.Format>>

\* the call has left parseSVG with a root element
RootFound(c) == calls[c].pc \notin {"idle", "parse"} /\ calls[c].ps.root # 0

\* the canvas is one the encoder of the call's format accepts: the JPEG
\* encoder takes no side of 1<<16 pixels or more
EncoderAccepts(c) ==
    calls[c].opts.Format = FormatJPEG =>
        calls[c].width < 65536 /\ calls[c].height < 65536

\* C13: for a raster format, a request with Width >= 0 and Height >= 0 and a
\* document in which a root element is found, Export completes and returns a
\* byte stream with no error, whatever the elements' tags and attribute
\* values are, provided the encoder accepts the buffer; dimension resolution
\* and rendering never abort the call.
C13_RasterNeverFails ==
    \A c \in DOMAIN calls :
        ( /\ RootFound(c) /\ Raster(c)
          /\ calls[c].opts.Width >= 0 /\ calls[c].opts.Height >= 0 ) =>
            /\ calls[c].pc # "panic"
            /\ (Done(c) /\ EncoderAccepts(c)) => calls[c].ret.err = Nil

(*************************** getSVGDimensions ******************************)

\* an optional attribute value: <<>> when the attribute is missing, <<v>> when
\* it is written with value v
Missing == {<<>>}
Written(values) == {<<v>> : v \in values}

\* the attribute list of a start tag from optional values
AttrList(names, values) ==
    LET present == {i \in 1..Len(names) : values[i] # <<>>}
        RECURSIVE build(_)
        build(i) ==
            IF i > Len(names) THEN <<>>
            ELSE (IF i \in present THEN <<A(names[i], values[i][1])>> ELSE <<>>)
                     \o build(i + 1)
    IN  build(1)

\* the element a start tag gives
ElementOf(tag, names, values) ==
    setAttributes(svgElement(tag), AttrList(names, values))

WidthAttrs ==
    Missing \cup Written({<<"4">>, <<"0">>, <<"-","5">>, <<"a","b","c">>,
                          <<"1","0","p","x">>, <<"2",".","9">>, <<>>, <<"5","0","%">>,
                          <<"0","x","1","p","2">>})

HeightAttrs ==
    Missing \cup Written({<<"6">>, <<"0">>, <<"-","7">>, <<"1","e","1">>,
                          <<" ","7","p","t"," ">>})

ViewBoxAttrs ==
    Missing \cup Written({<<"0"," ","0"," ","5"," ","3">>,
                          <<"0"," ","0"," ","5">>,
                          <<"0"," ","0"," ","0"," ","7">>,
                          <<"0"," ","0"," ","-","5"," ","-","3">>,
                          <<" ","1"," ","2"," "," ","6","\t","4"," ">>,
                          <<"0",",","0",",","5",",","3">>,
                          <<"0"," ","0"," ","5"," ","3"," ","1">>,
                          <<"0","\f","0","xC2","xA0","5","x0B","3">>,
                          <<>>})

RequestSizes == {0, 3, -2}

DimInputs ==
    {[root |-> ElementOf("svg", <<"width", "height", "viewBox">>, <<w, h, vb>>),
      opts |-> [Format |-> FormatPNG, Width |-> rw, Height |-> rh,
                Quality |-> 0, DPI |-> 0]] :
        w \in WidthAttrs, h \in HeightAttrs, vb \in ViewBoxAttrs,
        rw \in RequestSizes, rh \in RequestSizes}

CallGetSVGDimensions ==
    /\ unit.fn = "getSVGDimensions" /\ ~unit.done
    /\ unit' = [unit EXCEPT !.done = TRUE,
                            !.ret = getSVGDimensions(unit.arg.root, unit.arg.opts)]
    /\ UNCHANGED <<calls, goarch>>

InitDim ==
    /\ goarch \in Builds
    /\ calls = <<>>
    /\ unit \in {UnitCall("getSVGDimensions", a) : a \in DimInputs}

SpecDim == InitDim /\ [][CallGetSVGDimensions]_vars

DimReturned == unit.fn = "getSVGDimensions" /\ unit.done

RootHas(name) == name \in DOMAIN unit.arg.root.Attributes

\* the whitespace-separated tokens of the root's viewBox
ViewBoxTokens ==
    IF RootHas("viewBox") THEN Fields(unit.arg.root.Attributes["viewBox"]) ELSE <<>>

\* one axis by the order of resolution: the request, the attribute, the k-th
\* viewBox token, the default; a value of 0 passes to the next step
ExpectAxis(req, name, k, default) ==
    IF req # 0 THEN req
    ELSE IF RootHas(name) /\ parseLength(unit.arg.root.Attributes[name]) # 0
         THEN parseLength(unit.arg.root.Attributes[name])
    ELSE IF Len(ViewBoxTokens) = 4 /\ parseLength(ViewBoxTokens[k]) # 0
         THEN parseLength(ViewBoxTokens[k])
    ELSE default

\* C3: getSVGDimensions resolves each axis on its own: the non-zero request
\* value, else the non-zero length of the width/height attribute, else the
\* third/fourth of exactly four viewBox tokens, else 800/600; it returns
\* (800, 600) for a request of (0, 0) and a root without width, height and
\* viewBox.
C3_DimensionOrder ==
    DimReturned =>
        /\ unit.ret.width  = ExpectAxis(unit.arg.opts.Width, "width", 3, 800)
        /\ unit.ret.height = ExpectAxis(unit.arg.opts.Height, "height", 4, 600)
        /\ ( /\ unit.arg.opts.Width = 0 /\ unit.arg.opts.Height = 0
             /\ ~RootHas("width") /\ ~RootHas("height") /\ ~RootHas("viewBox") )
              => unit.ret = [width |-> 800, height |-> 600]

\* C3 witness: with request (0, 0), width="4", no height and
\* viewBox="0 0 5 3" the result is (4, 3): the axes resolve at different steps
C3_Witness ==
    /\ DimReturned
    /\ unit.arg.opts.Width = 0 /\ unit.arg.opts.Height = 0
    /\ unit.arg.root.Attributes =
          [n \in {"width", "viewBox"} |->
              IF n = "width" THEN <<"4">> ELSE <<"0"," ","0"," ","5"," ","3">>]
    /\ unit.ret = [width |-> 4, height |-> 3]

\* C4: for a request with Width >= 0 and Height >= 0 the width and height
\* getSVGDimensions returns are both strictly positive, whatever the root's
\* width, height and viewBox attributes are.
C4_PositiveDimensions ==
    (DimReturned /\ unit.arg.opts.Width >= 0 /\ unit.arg.opts.Height >= 0) =>
        unit.ret.width > 0 /\ unit.ret.height > 0

(******************************* renderRect ********************************)

CanvasWidth == 4
CanvasHeight == 3

\* the canvas rasterize hands to renderElement: allocated, filled with white
WhiteCanvas ==
    [img  |-> drawUniform(NewRGBA(Rect(0, 0, CanvasWidth, CanvasHeight)),
                          Rect(0, 0, CanvasWidth, CanvasHeight), White, "src"),
     rast |-> rasterizerReset(CanvasWidth, CanvasHeight)]

CanvasPixels == {<<px, py>> : px \in 0..(CanvasWidth - 1), py \in 0..(CanvasHeight - 1)}

\* x = -1000000001 with width 1000000005 is a rectangle over the whole canvas
\* whose Min lies more than the extent of a Uniform left of it
RectXs == Missing \cup Written({<<"-","2">>, <<"0">>, <<"1">>, <<"3">>, <<"5">>,
                                <<"-","1","0","0","0","0","0","0","0","0","1">>})
RectYs == Missing \cup Written({<<"-","2">>, <<"0">>, <<"1">>, <<"5">>})
RectExtents == Missing \cup Written({<<"-","2">>, <<"0">>, <<"1">>, <<"2">>, <<"9">>,
                                     <<"1","0","0","0","0","0","0","0","0","5">>})
RectFills == Missing \cup Written({<<"#","f","0","0">>, <<"b","l","u","e">>})

RectInputs ==
    {[elem |-> ElementOf("rect", <<"x", "y", "width", "height", "fill">>,
                         <<x, y, w, h, f>>),
      rs   |-> WhiteCanvas] :
        x \in RectXs, y \in RectYs, w \in RectExtents, h \in RectExtents,
        f \in RectFills}

CallRenderRect ==
    /\ unit.fn = "renderRect" /\ ~unit.done
    /\ unit' = [unit EXCEPT !.done = TRUE,
                            !.ret = renderRect(unit.arg.elem, unit.arg.rs)]
    /\ UNCHANGED <<calls, goarch>>

InitRect ==
    /\ goarch \in Builds
    /\ calls = <<>>
    /\ unit \in {UnitCall("renderRect", a) : a \in RectInputs}

SpecRect == InitRect /\ [][CallRenderRect]_vars

RectReturned == unit.fn = "renderRect" /\ unit.done

\* the integer value of an attribute of the rect; 0 when it is missing
RectInt(name) ==
    IF name \in DOMAIN unit.arg.elem.Attributes
    THEN parseLength(unit.arg.elem.Attributes[name])
    ELSE 0

RectFill == parseColor(Attr(unit.arg.elem, "fill"))

\* (px, py) with x <= px < x+width and y <= py < y+height
InRequestedRect(p) ==
    /\ RectInt("x") <= p[1] /\ p[1] < RectInt("x") + RectInt("width")
    /\ RectInt("y") <= p[2] /\ p[2] < RectInt("y") + RectInt("height")

\* C10: rendering a rect with an opaque fill and integer x, y, width, height
\* (zero and negative extents and positions outside the canvas included) sets
\* to the fill colour exactly the canvas pixels with x <= px < x+width and
\* y <= py < y+height and changes no other pixel; a missing or zero width or
\* height paints nothing.
C10_RectPixels ==
    (RectReturned /\ RectFill.A = 255) =>
        \A p \in CanvasPixels :
            At(unit.ret.img, p) =
                IF InRequestedRect(p) THEN RectFill ELSE At(unit.arg.rs.img, p)

(******************************** parseSVG *********************************)

\* mutant of parseResult: elements left open at the end are an error
parseResultStrict(ps) ==
    [heap |-> ps.heap,
     root |-> IF ps.stack # <<>> THEN 0 ELSE ps.root,
     err  |-> IF ps.root = 0 \/ ps.stack # <<>>
              THEN "no SVG root element found" ELSE Nil]

\* what parseSVG returns after the token loop: (root, nil), or
\* (nil, "no SVG root element found") when root == nil
parseResult(ps) ==
    [heap |-> ps.heap,
     root |-> ps.root,
     err  |-> IF ps.root = 0 THEN "no SVG root element found" ELSE Nil]

\* parseSVG on the tokens the decoder returns before its first error
parseSVG(tokens) == parseResult(parseTokens(parserStart, tokens))

MaxTokens == 4

ParseAlphabet ==
    {StartElement("svg", <<>>), StartElement("g", <<>>),
     StartElement("rect", <<A("x", <<"1">>)>>),
     EndElement("svg"), EndElement("g"), EndElement("rect"),
     CharData(<<"h", "i", " ">>), CharData(<<" ">>), Comment}

\* the decoder returns an end tag only when it closes the innermost open
\* element: open is the sequence of the names of the open elements
RECURSIVE wellNested(_, _)
wellNested(tokens, open) ==
    IF tokens = <<>> THEN TRUE
    ELSE CASE Head(tokens).kind = "StartElement" ->
                 wellNested(Tail(tokens), Append(open, Head(tokens).name))
           [] Head(tokens).kind = "EndElement" ->
                 /\ open # <<>>
                 /\ open[Len(open)] = Head(tokens).name
                 /\ wellNested(Tail(tokens), SubSeq(open, 1, Len(open) - 1))
           [] OTHER -> wellNested(Tail(tokens), open)

TokenStreams == {ts \in StringsUpTo(ParseAlphabet, MaxTokens) : wellNested(ts, <<>>)}

CallParseSVG ==
    /\ unit.fn = "parseSVG" /\ ~unit.done
    /\ unit' = [unit EXCEPT !.done = TRUE, !.ret = parseSVG(unit.arg)]
    /\ UNCHANGED <<calls, goarch>>

InitParse ==
    /\ goarch \in Builds
    /\ calls = <<>>
    /\ unit \in {UnitCall("parseSVG", ts) : ts \in TokenStreams}

SpecParse == InitParse /\ [][CallParseSVG]_vars

ParseReturned == unit.fn = "parseSVG" /\ unit.done

\* a start tag was read before the end of input or the first decode error
StartTagRead == \E i \in 1..Len(unit.arg) : unit.arg[i].kind = "StartElement"

\* C11: parseSVG fails with the no-root error if and only if no start tag was
\* read before the end of input or the first decode error; once a start tag
\* has been read it returns a root element, also when elements are left
\* unclosed.
C11_NoRootError ==
    ParseReturned =>
        /\ (unit.ret.err = "no SVG root element found") <=> ~StartTagRead
        /\ StartTagRead =>
              /\ unit.ret.err = Nil
              /\ unit.ret.root \in DOMAIN unit.ret.heap
        /\ ~StartTagRead => unit.ret.root = 0

\* C11 witness: the input ends with svg and g still open and parseSVG returns
\* the svg element as root
C11_Witness ==
    /\ ParseReturned
    /\ unit.arg = <<StartElement("svg", <<>>), CharData(<<" ">>),
                    StartElement("g", <<>>)>>
    /\ unit.ret.err = Nil
    /\ unit.ret.root = 1
    /\ unit.ret.heap[1].Tag = "svg"

\* the open elements folded into one: each becomes the last child of the one
\* below it
RECURSIVE foldOpen(_)
foldOpen(open) ==
    IF Len(open) = 1 THEN open[1]
    ELSE foldOpen([SubSeq(open, 1, Len(open) - 1) EXCEPT
                      ![Len(open) - 1].Children = Append(@, open[Len(open)])])

\* the tree a document's nesting describes: open holds the open elements
\* with the children and text read so far, top the last top-level element
\* that was closed
RECURSIVE nestingTree(_, _, _)
nestingTree(tokens, open, top) ==
    IF tokens = <<>> THEN (IF open = <<>> THEN top ELSE foldOpen(open))
    ELSE CASE Head(tokens).kind = "StartElement" ->
                 nestingTree(Tail(tokens),
                             Append(open, setAttributes(svgElement(Head(tokens).name),
                                                        Head(tokens).attr)),
                             top)
           [] Head(tokens).kind = "EndElement" ->
                 IF Len(open) = 1
                 THEN nestingTree(Tail(tokens), <<>>, open[1])
                 ELSE nestingTree(Tail(tokens),
                                  [SubSeq(open, 1, Len(open) - 1) EXCEPT
                                      ![Len(open) - 1].Children = Append(@, open[Len(open)])],
                                  top)
           [] Head(tokens).kind = "CharData"
                /\ open # <<>> /\ TrimSpace(Head(tokens).data) # <<>> ->
                 nestingTree(Tail(tokens),
                             [open EXCEPT ![Len(open)].Text = TrimSpace(Head(tokens).data)],
                             top)
           [] OTHER -> nestingTree(Tail(tokens), open, top)

\* C17: the tree parseSVG returns mirrors the document's nesting at every
\* depth: every element is a child of the element that was innermost-open
\* when its start tag was read, Children lists are in document order, and an
\* element's descendants and trimmed text are present on the node stored in
\* its parent's Children.
C17_TreeMirrorsNesting ==
    (ParseReturned /\ StartTagRead) =>
        unit.ret.heap[unit.ret.root] = nestingTree(unit.arg, <<>>, svgElement(""))

(****************************** renderElement ******************************)

MaxChildren == 2

\* an element with attributes and children
Node(tag, names, values, children) ==
    [ElementOf(tag, names, values) EXCEPT !.Children = children]

LeafRed ==
    Node("rect", <<"x", "y", "width", "height", "fill">>,
         <<<<(<<"0">>)>>, <<(<<"0">>)>>, <<(<<"3">>)>>, <<(<<"2">>)>>,
           <<(<<"r","e","d">>)>>>>, <<>>)
LeafBlue ==
    Node("rect", <<"x", "y", "width", "height", "fill">>,
         <<<<(<<"2">>)>>, <<(<<"1">>)>>, <<(<<"2">>)>>, <<(<<"2">>)>>,
           <<(<<"#","0","0","f">>)>>>>, <<>>)
LeafRectNone ==
    Node("rect", <<"x", "y", "width", "height", "fill">>,
         <<<<(<<"1">>)>>, <<(<<"0">>)>>, <<(<<"2">>)>>, <<(<<"3">>)>>,
           <<(<<"n","o","n","e">>)>>>>, <<>>)
LeafCircleUnfilled ==
    Node("circle", <<"cx", "cy", "r">>,
         <<<<(<<"2">>)>>, <<(<<"1">>)>>, <<(<<"1">>)>>>>, <<>>)
LeafLineUnstroked ==
    Node("line", <<"x1", "y1", "x2", "y2", "stroke">>,
         <<<<(<<"0">>)>>, <<(<<"0">>)>>, <<(<<"3">>)>>, <<(<<"2">>)>>,
           <<(<<>>)>>>>, <<>>)

\* a circle that covers the whole canvas
LeafCircleGreen ==
    Node("circle", <<"cx", "cy", "r", "fill">>,
         <<<<(<<"2">>)>>, <<(<<"1">>)>>, <<(<<"9">>)>>,
           <<(<<"g","r","e","e","n">>)>>>>, <<>>)

Leaves ==
    {LeafRed, LeafBlue, LeafRectNone, LeafCircleUnfilled, LeafLineUnstroked,
     LeafCircleGreen}
InnerLeaves == {LeafRed, LeafBlue}
InnerTags == {"g", "text", "path", "defs"}

UpToTwo(S) == {<<>>} \cup {<<a>> : a \in S} \cup {<<a, b>> : a \in S, b \in S}

\* trees as renderElement may be handed: a root (svg, g or text) with up to
\* two children, each a shape or an element holding up to MaxChildren
\* rectangles
Trees ==
    {[svgElement(t) EXCEPT !.Children = cs] :
        t \in {"svg", "g", "text"},
        cs \in UpToTwo(Leaves \cup {[svgElement(i) EXCEPT !.Children = ls] :
                                      i \in InnerTags,
                                      ls \in StringsUpTo(InnerLeaves, MaxChildren)})}

CallRenderElement ==
    /\ unit.fn = "renderElement" /\ ~unit.done
    /\ unit' = [unit EXCEPT !.done = TRUE,
                            !.ret = renderElement(unit.arg.elem, unit.arg.rs)]
    /\ UNCHANGED <<calls, goarch>>

InitRender ==
    /\ goarch \in Builds
    /\ calls = <<>>
    /\ unit \in {UnitCall("renderElement", [elem |-> t, rs |-> WhiteCanvas]) : t \in Trees}

SpecRender == InitRender /\ [][CallRenderElement]_vars

RenderReturned == unit.fn = "renderElement" /\ unit.done

ShapeTags == {"rect", "circle", "line"}

\* the shapes of a tree in document order (pre-order, depth first)
RECURSIVE shapesInOrder(_)
RECURSIVE shapesOfAll(_)
shapesInOrder(elem) ==
    (IF elem.Tag \in ShapeTags THEN <<elem>> ELSE <<>>) \o shapesOfAll(elem.Children)
shapesOfAll(elems) ==
    IF elems = <<>> THEN <<>>
    ELSE shapesInOrder(Head(elems)) \o shapesOfAll(Tail(elems))

\* how a shape is painted: a uniform fill for a rect, the rasterizer for a
\* circle or a line, with the colour of its fill or stroke
PaintOf(elem) ==
    [kind |-> IF elem.Tag = "rect" THEN "fill" ELSE "vector",
     c    |-> parseColor(Attr(elem, IF elem.Tag = "line" THEN "stroke" ELSE "fill"))]

PaintsOf(elems) == [i \in 1..Len(elems) |-> PaintOf(elems[i])]

\* the operations renderElement added to the image, in order
Painted ==
    [i \in 1..(Len(unit.ret.img.Ops) - Len(unit.arg.rs.img.Ops)) |->
        [kind |-> unit.ret.img.Ops[i + Len(unit.arg.rs.img.Ops)].kind,
         c    |-> unit.ret.img.Ops[i + Len(unit.arg.rs.img.Ops)].c]]

\* the integer value of an attribute of a shape
ShapeInt(elem, name) == parseLength(Attr(elem, name))

\* the square of the distance of the corner <<qx, qy>> from the centre of
\* the circle
cornerDistance(elem, qx, qy) ==
    (qx - ShapeInt(elem, "cx")) * (qx - ShapeInt(elem, "cx"))
      + (qy - ShapeInt(elem, "cy")) * (qy - ShapeInt(elem, "cy"))

\* the shape is opaque and pixel p lies in it as a whole: in the bounds of
\* the rect; for a circle, with its four corners within 99/100 of the radius,
\* which is inside the polygon of 32 segments (cos(pi/32) > 0.995)
OpaqueOver(elem, p) ==
    /\ PaintOf(elem).c.A = 255
    /\ CASE elem.Tag = "rect" ->
              /\ ShapeInt(elem, "x") <= p[1]
              /\ p[1] < ShapeInt(elem, "x") + ShapeInt(elem, "width")
              /\ ShapeInt(elem, "y") <= p[2]
              /\ p[2] < ShapeInt(elem, "y") + ShapeInt(elem, "height")
         [] elem.Tag = "circle" ->
              /\ ShapeInt(elem, "r") > 0
              /\ \A qx \in {p[1], p[1] + 1} : \A qy \in {p[2], p[2] + 1} :
                    10000 * cornerDistance(elem, qx, qy)
                      < 9801 * ShapeInt(elem, "r") * ShapeInt(elem, "r")
         [] OTHER -> FALSE

\* the shapes of the tree, by their place in document order, that are opaque
\* over pixel p
OpaqueShapesOver(p) ==
    {j \in DOMAIN shapesInOrder(unit.arg.elem) :
        OpaqueOver(shapesInOrder(unit.arg.elem)[j], p)}

\* the operations a and b, b after a, are the paintings of the shapes s and t
PaintedInOrder(s, t) ==
    \E a \in DOMAIN Painted : \E b \in DOMAIN Painted :
        a < b /\ Painted[a] = PaintOf(s) /\ Painted[b] = PaintOf(t)

\* C14: shapes are painted in document order by a pre-order depth-first
\* walk: of any two shapes of the tree the later one in the document is
\* painted after the earlier one, so where two opaque shapes overlap the
\* pixel has the colour of the later shape.  (Every shape of Trees covers a
\* pixel as a whole or leaves it alone.)
C14_PaintOrder ==
    RenderReturned =>
        /\ \A i \in DOMAIN shapesInOrder(unit.arg.elem) :
              \A j \in DOMAIN shapesInOrder(unit.arg.elem) :
                  i < j => PaintedInOrder(shapesInOrder(unit.arg.elem)[i],
                                          shapesInOrder(unit.arg.elem)[j])
        /\ \A p \in CanvasPixels : \A j \in OpaqueShapesOver(p) :
              ( /\ Cardinality(OpaqueShapesOver(p)) >= 2
                /\ \A i \in OpaqueShapesOver(p) : i <= j ) =>
                  At(unit.ret.img, p) = PaintOf(shapesInOrder(unit.arg.elem)[j]).c

\* the shapes that have no shape above them
RECURSIVE shapesOutermost(_)
RECURSIVE shapesOutermostOfAll(_)
shapesOutermost(elem) ==
    IF elem.Tag \in ShapeTags THEN <<elem>>
    ELSE shapesOutermostOfAll(elem.Children)
shapesOutermostOfAll(elems) ==
    IF elems = <<>> THEN <<>>
    ELSE shapesOutermost(Head(elems)) \o shapesOutermostOfAll(Tail(elems))

\* C18: renderElement recurses into the children, in order, of every element
\* whose tag is not rect, circle or line (svg, g, unrecognised tags, and also
\* text and path), so that shapes below a text or path element are painted.
C18_RecursesIntoAll ==
    RenderReturned => Painted = PaintsOf(shapesOutermost(unit.arg.elem))

(***************************** concurrent calls ****************************)

\* the canvas and the rasterizer rasterize allocates for a width and height
canvasOf(w, h) ==
    [img  |-> drawUniform(NewRGBA(Rect(0, 0, w, h)), Rect(0, 0, w, h), White, "src"),
     rast |-> rasterizerReset(w, h)]

\* the document <svg width='3' height='2'><line x1='0' y1='0' x2='3' y2='2' stroke='red'/></svg>
DocLine ==
    [text |-> "<svg width='3' height='2'><line x1='0' y1='0' x2='3' y2='2' stroke='red'/></svg>",
     tokens |-> <<
        StartElement("svg", <<A("width", <<"3">>), A("height", <<"2">>)>>),
        StartElement("line", <<A("x1", <<"0">>), A("y1", <<"0">>), A("x2", <<"3">>), A("y2", <<"2">>), A("stroke", <<"r","e","d">>)>>),
        EndElement("line"),
        EndElement("svg")>>]

\* documents of four canvas sizes: two that are painted, one without a root,
\* one whose canvas makes NewRasterizer panic and one the JPEG encoder
\* refuses
ConcurrentDocs == {DocOverlap, DocLine, DocEmpty, DocNegWidth, DocWide}
ConcurrentOptions ==
    {[Format |-> f, Width |-> 0, Height |-> 0, Quality |-> q, DPI |-> d] :
        f \in {FormatSVG, FormatPNG, FormatJPEG}, q \in {0, 150}, d \in DPIs}

\* Export, called by one of several goroutines
ExportConcurrent(c) ==
    /\ calls[c].pc = "idle"
    /\ \E doc \in ConcurrentDocs, o \in ConcurrentOptions :
          calls' = [calls EXCEPT ![c] =
              IF o.Format = FormatSVG
              THEN [@ EXCEPT !.pc = "done", !.svgData = doc, !.opts = o,
                             !.ret = [data |-> doc.text, err |-> Nil]]
              ELSE [@ EXCEPT !.pc = "parse", !.svgData = doc, !.opts = o,
                             !.decoder = doc.tokens]]
    /\ UNCHANGED <<unit, goarch>>

\* the goroutines run on their own: a panic ends the goroutine it happens
\* in, and the other calls are followed to their end as if the program went
\* on
InitConcurrent ==
    /\ goarch \in Builds
    /\ calls = <<IdleCall, IdleCall>>
    /\ unit = NoUnit

NextConcurrent ==
    \/ \E c \in DOMAIN calls : ExportConcurrent(c)
    \/ \E c \in DOMAIN calls : ParseToken(c)
    \/ \E c \in DOMAIN calls : ParseEnd(c)
    \/ \E c \in DOMAIN calls : Dimensions(c)
    \/ \E c \in DOMAIN calls : Canvas(c)
    \/ \E c \in DOMAIN calls : Render(c)
    \/ \E c \in DOMAIN calls : Encode(c)

SpecConcurrent == InitConcurrent /\ [][NextConcurrent]_vars

\* What a call of Export on each of the documents gives when it runs alone,
\* written out: the image of DocOverlap is the 4x4 canvas filled white, then
\* the red and the blue rectangle; that of DocWide the 65536x1 canvas filled
\* white, then the red rectangle.
AloneOverlap ==
    [Rect |-> [MinX |-> 0, MinY |-> 0, MaxX |-> 4, MaxY |-> 4],
     Ops  |-> <<[kind |-> "fill", op |-> "src",
                 r |-> [MinX |-> 0, MinY |-> 0, MaxX |-> 4, MaxY |-> 4],
                 c |-> [R |-> 255, G |-> 255, B |-> 255, A |-> 255]],
                [kind |-> "fill", op |-> "over",
                 r |-> [MinX |-> 0, MinY |-> 0, MaxX |-> 3, MaxY |-> 3],
                 c |-> [R |-> 255, G |-> 0, B |-> 0, A |-> 255]],
                [kind |-> "fill", op |-> "over",
                 r |-> [MinX |-> 2, MinY |-> 2, MaxX |-> 4, MaxY |-> 4],
                 c |-> [R |-> 0, G |-> 0, B |-> 255, A |-> 255]]>>]

AloneWide ==
    [Rect |-> [MinX |-> 0, MinY |-> 0, MaxX |-> 65536, MaxY |-> 1],
     Ops  |-> <<[kind |-> "fill", op |-> "src",
                 r |-> [MinX |-> 0, MinY |-> 0, MaxX |-> 65536, MaxY |-> 1],
                 c |-> [R |-> 255, G |-> 255, B |-> 255, A |-> 255]],
                [kind |-> "fill", op |-> "over",
                 r |-> [MinX |-> 0, MinY |-> 0, MaxX |-> 2, MaxY |-> 1],
                 c |-> [R |-> 255, G |-> 0, B |-> 0, A |-> 255]]>>]

\* the pixels of DocLine exported alone, row by row: the line from (0, 0) to
\* (3, 2) drawn in red over white
AloneLinePixels ==
    <<<<[R |-> 255, G |-> 170, B |-> 170, A |-> 255],
        [R |-> 255, G |-> 21, B |-> 21, A |-> 255],
        [R |-> 255, G |-> 0, B |-> 0, A |-> 255]>>,
      <<[R |-> 255, G |-> 0, B |-> 0, A |-> 255],
        [R |-> 255, G |-> 0, B |-> 0, A |-> 255],
        [R |-> 255, G |-> 0, B |-> 0, A |-> 255]>>>>

\* the bytes of a raster format: the format, the quality the JPEG encoder is
\* given for a requested quality of 0 or 150, and the image
AloneBytes(opts, img) ==
    IF opts.Format = FormatPNG
    THEN [format |-> "png", quality |-> 0, img |-> img]
    ELSE [format |-> "jpeg", quality |-> IF opts.Quality = 0 THEN 90 ELSE 100,
          img |-> img]

\* the call returned the image of DocLine: a 3x2 canvas with the pixels of
\* AloneLinePixels, made by the white fill and one drawing of the rasterizer
ReturnedLine(call) ==
    /\ call.ret.err = Nil
    /\ call.ret.data.format = AloneBytes(call.opts, Nil).format
    /\ call.ret.data.quality = AloneBytes(call.opts, Nil).quality
    /\ call.ret.data.img.Rect = [MinX |-> 0, MinY |-> 0, MaxX |-> 3, MaxY |-> 2]
    /\ Len(call.ret.data.img.Ops) = 2
    /\ \A px \in 0..2 : \A py \in 0..1 :
          At(call.ret.data.img, <<px, py>>) = AloneLinePixels[py + 1][px + 1]

\* the call ended as a call on its text and options ends when run alone
EndedAsAlone(call) ==
    CASE call.opts.Format = FormatSVG ->
            /\ call.pc = "done"
            /\ call.ret = [data |-> call.svgData.text, err |-> Nil]
      [] call.opts.Format # FormatSVG /\ call.svgData = DocEmpty ->
            /\ call.pc = "done"
            /\ call.ret = [data |-> Nil,
                           err  |-> <<"failed to parse SVG: ",
                                      "no SVG root element found">>]
      [] call.opts.Format # FormatSVG /\ call.svgData = DocNegWidth ->
            /\ call.pc = "panic"
            /\ call.ret = Nil
      [] call.opts.Format = FormatJPEG /\ call.svgData = DocWide ->
            /\ call.pc = "done"
            /\ call.ret = [data |-> Nil, err |-> JpegTooLarge]
      [] call.opts.Format = FormatPNG /\ call.svgData = DocWide ->
            /\ call.pc = "done"
            /\ call.ret = [data |-> AloneBytes(call.opts, AloneWide), err |-> Nil]
      [] call.opts.Format # FormatSVG /\ call.svgData = DocOverlap ->
            /\ call.pc = "done"
            /\ call.ret = [data |-> AloneBytes(call.opts, AloneOverlap), err |-> Nil]
      [] call.opts.Format # FormatSVG /\ call.svgData = DocLine ->
            /\ call.pc = "done"
            /\ ReturnedLine(call)

\* C16: Export calls share no mutable state: in any interleaving of
\* concurrent calls each call ends as it ends when run alone on the same
\* text and options, be it with bytes, with an error or with a panic.
C16_CallsIndependent ==
    \A c \in DOMAIN calls :
        calls[c].pc \in {"done", "panic"} => EndedAsAlone(calls[c])

\* C16 witness: a png export of DocLine and a jpeg export of DocOverlap,
\* interleaved, have both returned, each the image of its own document and
\* size
C16_Witness ==
    /\ Len(calls) = 2
    /\ Done(1) /\ Done(2)
    /\ calls[1].opts.Format = FormatPNG /\ calls[2].opts.Format = FormatJPEG
    /\ calls[1].svgData = DocLine /\ calls[2].svgData = DocOverlap
    /\ Dx(calls[1].ret.data.img.Rect) = 3
    /\ At(calls[1].ret.data.img, <<1, 0>>) = RGBA(255, 21, 21, 255)
    /\ Dx(calls[2].ret.data.img.Rect) = 4
    /\ At(calls[2].ret.data.img, <<2, 2>>) = RGBA(0, 0, 255, 255)

(******************************* parseLength *******************************)

MaxSuffixes == 2

\* a number as written, with the integer it truncates to; valid is FALSE for
\* text strconv.ParseFloat rejects
Written10    == [text |-> <<"1","0">>,             valid |-> TRUE,  int |-> 10]
Written10_9  == [text |-> <<"1","0",".","9">>,     valid |-> TRUE,  int |-> 10]
WrittenNeg   == [text |-> <<"-","3",".","7">>,     valid |-> TRUE,  int |-> -3]
WrittenExp   == [text |-> <<"1","e","2">>,         valid |-> TRUE,  int |-> 100]
WrittenSmall == [text |-> <<".","5">>,             valid |-> TRUE,  int |-> 0]
WrittenPlus  == [text |-> <<"+","7",".">>,         valid |-> TRUE,  int |-> 7]
WrittenTenth == [text |-> <<"1","2","e","-","1">>, valid |-> TRUE,  int |-> 1]
WrittenNone  == [text |-> <<>>,                    valid |-> FALSE, int |-> 0]
WrittenSign  == [text |-> <<"-">>,                 valid |-> FALSE, int |-> 0]
WrittenWord  == [text |-> <<"a","b","c">>,         valid |-> FALSE, int |-> 0]
WrittenHuge  == [text |-> <<"1","e","4","0","0">>, valid |-> FALSE, int |-> 0]

WrittenNumbers ==
    {Written10, Written10_9, WrittenNeg, WrittenExp, WrittenSmall, WrittenPlus,
     WrittenTenth, WrittenNone, WrittenSign, WrittenWord, WrittenHuge}

LengthSuffixes == {<<"p","x">>, <<"p","t">>, <<"%">>, <<"e","m">>, <<"m","m">>, <<" ">>}

RECURSIVE Concat(_)
Concat(ss) == IF ss = <<>> THEN <<>> ELSE Head(ss) \o Concat(Tail(ss))

\* a length attribute: optional leading space or form feed, a number, unit suffixes
LengthInputs ==
    {[lead |-> l, number |-> n, suffixes |-> u] :
        l \in {<<>>, <<" ">>, <<"\f">>}, n \in WrittenNumbers,
        u \in StringsUpTo(LengthSuffixes, MaxSuffixes)}

LengthText(in) == in.lead \o in.number.text \o Concat(in.suffixes)

CallParseLength ==
    /\ unit.fn = "parseLength" /\ ~unit.done
    /\ unit' = [unit EXCEPT !.done = TRUE, !.ret = parseLength(LengthText(unit.arg))]
    /\ UNCHANGED <<calls, goarch>>

InitLength ==
    /\ goarch \in Builds
    /\ calls = <<>>
    /\ unit \in {UnitCall("parseLength", in) : in \in LengthInputs}

SpecLength == InitLength /\ [][CallParseLength]_vars

LengthReturned == unit.fn = "parseLength" /\ unit.done

\* the integer of a text that is one of the written numbers, 0 for any other
NumberOrZero(text) ==
    IF \E n \in WrittenNumbers : n.valid /\ n.text = text
    THEN (CHOOSE n \in WrittenNumbers : n.valid /\ n.text = text).int
    ELSE 0

\* one trailing px or pt removed
StripOneUnit(text) ==
    IF HasSuffix(text, <<"p","x">>) \/ HasSuffix(text, <<"p","t">>)
    THEN SubSeq(text, 1, Len(text) - 2)
    ELSE text

\* C19: parseLength never fails: it trims surrounding whitespace, strips one
\* trailing px or pt suffix, parses the remainder as a decimal number and
\* truncates it toward zero (10.9 -> 10, -3.7 -> -3); any input that cannot
\* be parsed this way (empty, %, em, mm, text) yields 0.
C19_ParseLength ==
    LengthReturned =>
        unit.ret = NumberOrZero(StripOneUnit(TrimSpace(LengthText(unit.arg))))

(******************************** the canvas *******************************)

\* the document <svg width='513' height='2'><circle cx='5' cy='1' r='1'/><line x1='0' y1='0' x2='513' y2='2' stroke='none'/><rect x='0' y='0' width='513' height='2' fill=''/></svg>
DocWideUnpainted ==
    [text |-> "<svg width='513' height='2'><circle cx='5' cy='1' r='1'/><line x1='0' y1='0' x2='513' y2='2' stroke='none'/><rect x='0' y='0' width='513' height='2' fill=''/></svg>",
     tokens |-> <<
        StartElement("svg", <<A("width", <<"5","1","3">>), A("height", <<"2">>)>>),
        StartElement("circle", <<A("cx", <<"5">>), A("cy", <<"1">>), A("r", <<"1">>)>>),
        EndElement("circle"),
        StartElement("line", <<A("x1", <<"0">>), A("y1", <<"0">>), A("x2", <<"5","1","3">>), A("y2", <<"2">>), A("stroke", <<"n","o","n","e">>)>>),
        EndElement("line"),
        StartElement("rect", <<A("x", <<"0">>), A("y", <<"0">>), A("width", <<"5","1","3">>), A("height", <<"2">>), A("fill", <<>>)>>),
        EndElement("rect"),
        EndElement("svg")>>]

\* the document <svg height='2'/>
DocBare ==
    [text |-> "<svg height='2'/>",
     tokens |-> <<
        StartElement("svg", <<A("height", <<"2">>)>>),
        EndElement("svg")>>]

\* the document <svg width='4' height='3'><g/><text>hi</text><path d='M0 0L4 3' fill='red'/><ellipse cx='2' cy='1' rx='2' ry='1' fill='blue'/></svg>
DocNoShapes ==
    [text |-> "<svg width='4' height='3'><g/><text>hi</text><path d='M0 0L4 3' fill='red'/><ellipse cx='2' cy='1' rx='2' ry='1' fill='blue'/></svg>",
     tokens |-> <<
        StartElement("svg", <<A("width", <<"4">>), A("height", <<"3">>)>>),
        StartElement("g", <<>>),
        EndElement("g"),
        StartElement("text", <<>>),
        CharData(<<"h","i">>),
        EndElement("text"),
        StartElement("path", <<A("d", <<"M","0"," ","0","L","4"," ","3">>), A("fill", <<"r","e","d">>)>>),
        EndElement("path"),
        StartElement("ellipse", <<A("cx", <<"2">>), A("cy", <<"1">>), A("rx", <<"2">>), A("ry", <<"1">>), A("fill", <<"b","l","u","e">>)>>),
        EndElement("ellipse"),
        EndElement("svg")>>]

\* documents whose shapes are all transparent, on a canvas of 4x4 and on one
\* the rasterizer computes in floating point for; documents without a shape,
\* on a canvas of 4x3 and on one of the default width, 800; and a document
\* that is painted.  The request leaves the size to the document or sets
\* the width or the height.
CanvasDocs == {DocUnpainted, DocWideUnpainted, DocNoShapes, DocBare, DocRect}
CanvasOptions ==
    {[Format |-> f, Width |-> wh[1], Height |-> wh[2], Quality |-> 0, DPI |-> 96] :
        f \in {FormatSVG, FormatPNG, FormatJPEG},
        wh \in {<<0, 0>>, <<3, 0>>, <<0, 3>>}}

\* Export, called with one of these documents
ExportCanvas(c) ==
    /\ calls[c].pc = "idle"
    /\ \E doc \in CanvasDocs, o \in CanvasOptions :
          calls' = [calls EXCEPT ![c] =
              IF o.Format = FormatSVG
              THEN [@ EXCEPT !.pc = "done", !.svgData = doc, !.opts = o,
                             !.ret = [data |-> doc.text, err |-> Nil]]
              ELSE [@ EXCEPT !.pc = "parse", !.svgData = doc, !.opts = o,
                             !.decoder = doc.tokens]]
    /\ UNCHANGED <<unit, goarch>>

NextCanvas ==
    \/ \E c \in DOMAIN calls : ExportCanvas(c)
    \/ \E c \in DOMAIN calls : ParseToken(c)
    \/ \E c \in DOMAIN calls : ParseEnd(c)
    \/ \E c \in DOMAIN calls : Dimensions(c)
    \/ \E c \in DOMAIN calls : Canvas(c)
    \/ \E c \in DOMAIN calls : Render(c)
    \/ \E c \in DOMAIN calls : Encode(c)

SpecCanvas == Init /\ [][NextCanvas]_vars

\* every pixel of the image is opaque white
AllWhite(img) == \A p \in PixelsOf(img) : At(img, p) = RGBA(255, 255, 255, 255)

\* no shape of the tree has a colour other than fully transparent
Unpainted(elem) ==
    \A i \in 1..Len(shapesInOrder(elem)) :
        PaintOf(shapesInOrder(elem)[i]).c = Transparent

\* C20: the canvas starts with every pixel opaque white and keeps the size it
\* was allocated with; rendering elements whose colour is fully transparent
\* (fill or stroke missing, empty or none) and rendering a document without
\* rect, circle and line leaves every pixel opaque white.
C20_CanvasStaysWhite ==
    \A c \in DOMAIN calls :
        calls[c].pc \in {"render", "encode"} =>
            /\ calls[c].rs.img.Rect =
                  [MinX |-> 0, MinY |-> 0,
                   MaxX |-> calls[c].width, MaxY |-> calls[c].height]
            /\ calls[c].pc = "render" => AllWhite(calls[c].rs.img)
            /\ (calls[c].pc = "encode" /\ Unpainted(RootOf(calls[c]))) =>
                  AllWhite(calls[c].rs.img)

\* C20 witness: on the canvas of 513x2 a circle without fill, a line with
\* stroke none and a rect with an empty fill have been rendered, the circle
\* and the line by the rasterizer in floating point, and all the 1026 pixels
\* are white
C20_Witness ==
    \E c \in DOMAIN calls :
        /\ calls[c].pc = "encode"
        /\ calls[c].svgData = DocWideUnpainted
        /\ Len(calls[c].rs.img.Ops) = 4
        /\ calls[c].rs.img.Ops[2].kind = "vector"
        /\ calls[c].rs.img.Ops[2].floating
        /\ calls[c].rs.img.Rect = Rect(0, 0, 513, 2)
        /\ \A p \in (0..512) \X (0..1) : At(calls[c].rs.img, p) = White

(****************************** renderCircle *******************************)

CircleCanvasWidth == 7
CircleCanvasHeight == 6

\* the width of a canvas on which the rasterizer computes in floating point
\* (one wider than floatingPointMathThreshold)
WideCanvasWidth == 513

CircleCanvas == canvasOf(CircleCanvasWidth, CircleCanvasHeight)
WideCanvas == canvasOf(WideCanvasWidth, CircleCanvasHeight)

CirclePixels ==
    {<<px, py>> : px \in 0..(CircleCanvasWidth - 1), py \in 0..(CircleCanvasHeight - 1)}

CircleXs == Missing \cup Written({<<"-","1">>, <<"0">>, <<"3">>, <<"7">>})
CircleYs == Missing \cup Written({<<"0">>, <<"3">>, <<"6">>})
CircleRadii == Missing \cup Written({<<"0">>, <<"1">>, <<"2">>, <<"3">>, <<"-","2">>})
CircleFills == Missing \cup Written({<<"r","e","d">>, <<"#","0","0","f">>})

CircleInputs ==
    {[elem |-> ElementOf("circle", <<"cx", "cy", "r", "fill">>, <<x, y, r, f>>),
      rs   |-> canvas] :
        x \in CircleXs, y \in CircleYs, r \in CircleRadii, f \in CircleFills,
        canvas \in {CircleCanvas, WideCanvas}}

CallRenderCircle ==
    /\ unit.fn = "renderCircle" /\ ~unit.done
    /\ unit' = [unit EXCEPT !.done = TRUE,
                            !.ret = renderCircle(unit.arg.elem, unit.arg.rs)]
    /\ UNCHANGED <<calls, goarch>>

InitCircle ==
    /\ goarch \in Builds
    /\ calls = <<>>
    /\ unit \in {UnitCall("renderCircle", a) : a \in CircleInputs}

SpecCircle == InitCircle /\ [][CallRenderCircle]_vars

CircleReturned == unit.fn = "renderCircle" /\ unit.done

\* the integer value of an attribute of the circle; 0 when it is missing
CircleInt(name) ==
    IF name \in DOMAIN unit.arg.elem.Attributes
    THEN parseLength(unit.arg.elem.Attributes[name])
    ELSE 0

CircleFill == parseColor(Attr(unit.arg.elem, "fill"))

\* the operation renderCircle added to the image
CircleOp == unit.ret.img.Ops[Len(unit.ret.img.Ops)]

\* the mask of a vector operation at pixel p
maskAtPixel(o, p) == maskAt(o, p[1] - o.r.MinX, p[2] - o.r.MinY)

\* the centre of pixel p is farther than r + 1 from (cx, cy)
FarOutside(p) ==
    \/ CircleInt("r") + 1 < 0
    \/ (2 * p[1] + 1 - 2 * CircleInt("cx")) * (2 * p[1] + 1 - 2 * CircleInt("cx"))
         + (2 * p[2] + 1 - 2 * CircleInt("cy")) * (2 * p[2] + 1 - 2 * CircleInt("cy"))
       > 4 * (CircleInt("r") + 1) * (CircleInt("r") + 1)

\* the pixels just inside the circle at its rightmost, leftmost, bottommost
\* and topmost point
RimPixels ==
    {<<CircleInt("cx") + CircleInt("r") - 1, CircleInt("cy")>>,
     <<CircleInt("cx") - CircleInt("r"), CircleInt("cy") - 1>>,
     <<CircleInt("cx"), CircleInt("cy") + CircleInt("r") - 1>>,
     <<CircleInt("cx") - 1, CircleInt("cy") - CircleInt("r")>>}

\* |a - b| <= r*r * num / 1024 for the float32 values a and b
WithinOfRadius(a, b, num) ==
    ~FLess(FMul(F32(CircleInt("r") * CircleInt("r"), 0), F32(num, 0 - 10)),
           IF FLess(a, b) THEN FSub(b, a) ELSE FSub(a, b))

\* the square of the distance between two points
distance2(a, b) ==
    FAdd(FMul(FSub(a.x, b.x), FSub(a.x, b.x)), FMul(FSub(a.y, b.y), FSub(a.y, b.y)))

\* the centre of the circle, and the point of the path after i of its
\* segments
CircleCentre == Vec2(F32(CircleInt("cx"), 0), F32(CircleInt("cy"), 0))
CirclePathPoint(i) == CircleOp.path[i + 1].pt

\* the point lies where the attributes put it, up to the rounding of float32
NearPoint(pt, x, y) ==
    WithinOfRadius(distance2(pt, Vec2(F32(x, 0), F32(y, 0))), F32(0, 0), 1)

\* C15: rendering a circle with centre (cx, cy) and radius r builds one
\* closed path of 32 equal-angle segments that starts at (cx + r, cy) and ends
\* at its starting point (every point of it at distance r from the centre,
\* all segments of the length 2 r sin(pi/32), a quarter of the turn made after
\* every 8 segments), and fills only that polygon: the pixels just inside
\* distance r from the centre get coverage and no pixel farther than r + 1
\* from the centre changes colour.
C15_CirclePath ==
    CircleReturned =>
        /\ Len(unit.ret.img.Ops) = Len(unit.arg.rs.img.Ops) + 1
        /\ CircleOp.kind = "vector" /\ CircleOp.c = CircleFill
        /\ Len(CircleOp.path) = 34
        /\ CircleOp.path[1].cmd = "MoveTo"
        /\ CirclePathPoint(0) =
              Vec2(F32(CircleInt("cx") + CircleInt("r"), 0), F32(CircleInt("cy"), 0))
        /\ \A i \in 1..32 :
              /\ CircleOp.path[i + 1].cmd = "LineTo"
              /\ WithinOfRadius(distance2(CirclePathPoint(i), CircleCentre),
                                F32(CircleInt("r") * CircleInt("r"), 0), 1)
              /\ WithinOfRadius(distance2(CirclePathPoint(i), CirclePathPoint(i - 1)),
                                FMul(F32(CircleInt("r") * CircleInt("r"), 0),
                                     F32(2519, 0 - 16)), 1)
        /\ NearPoint(CirclePathPoint(8), CircleInt("cx"), CircleInt("cy") + CircleInt("r"))
        /\ NearPoint(CirclePathPoint(16), CircleInt("cx") - CircleInt("r"), CircleInt("cy"))
        /\ NearPoint(CirclePathPoint(24), CircleInt("cx"), CircleInt("cy") - CircleInt("r"))
        /\ NearPoint(CirclePathPoint(32), CircleInt("cx") + CircleInt("r"), CircleInt("cy"))
        /\ CircleOp.path[34] = [cmd |-> "ClosePath", pt |-> CirclePathPoint(0)]
        /\ unit.ret.rast.pen = CirclePathPoint(0)
        /\ \A p \in PixelsOf(unit.ret.img) :
              FarOutside(p) => At(unit.ret.img, p) = At(unit.arg.rs.img, p)
        /\ \A p \in RimPixels \cap PixelsOf(unit.ret.img) :
              maskAtPixel(CircleOp, p) > 0

(************************* options without effect **************************)

\* the two calls were given the same text and the same options but for DPI
\* and, for a PNG export, for Quality
SameButUnused(a, b) ==
    /\ calls[a].svgData = calls[b].svgData
    /\ calls[a].opts.Format = calls[b].opts.Format
    /\ calls[a].opts.Width = calls[b].opts.Width
    /\ calls[a].opts.Height = calls[b].opts.Height
    /\ calls[a].opts.Format # FormatPNG =>
          calls[a].opts.Quality = calls[b].opts.Quality

\* C22: the output of a raster export does not depend on the DPI option and
\* the output of a PNG export does not depend on the Quality option: two
\* Export calls that differ only in DPI (for PNG, only in DPI and Quality)
\* return identical results, and one of them fails or panics when the other
\* does.
C22_UnusedOptions ==
    \A a \in DOMAIN calls : \A b \in DOMAIN calls :
        ( /\ calls[a].pc \in {"done", "panic"}
          /\ calls[b].pc \in {"done", "panic"}
          /\ Raster(a) /\ SameButUnused(a, b) ) =>
            /\ calls[a].pc = calls[b].pc
            /\ calls[a].ret = calls[b].ret

\* C22 witness: two png exports of one document, with (Quality, DPI) of
\* (0, 0) and (150, 96), have returned the same bytes
C22_Witness ==
    /\ Len(calls) = 2
    /\ Done(1) /\ Done(2)
    /\ calls[1].svgData = DocOverlap /\ calls[2].svgData = DocOverlap
    /\ calls[1].opts.Format = FormatPNG /\ calls[2].opts.Format = FormatPNG
    /\ calls[1].opts.Quality = 0 /\ calls[1].opts.DPI = 0
    /\ calls[2].opts.Quality = 150 /\ calls[2].opts.DPI = 96
    /\ calls[1].ret.err = Nil
    /\ calls[1].ret.data.img.Rect = Rect(0, 0, 4, 4)
    /\ calls[1].ret = calls[2].ret

(************************ several top-level elements ***********************)

\* C24: when the input has more than one top-level element the root
\* parseSVG returns is the first top-level element, and the canvas
\* dimensions are taken from that first element.
C24_FirstTopLevelIsRoot ==
    \A c \in DOMAIN calls :
        RootFound(c) =>
            /\ calls[c].ps.root = 1
            /\ calls[c].pc \in {"canvas", "render", "encode"} =>
                  /\ calls[c].width =
                        getSVGDimensions(calls[c].ps.heap[1], calls[c].opts).width
                  /\ calls[c].height =
                        getSVGDimensions(calls[c].ps.heap[1], calls[c].opts).height

(******************************* renderLine ********************************)

LineXs == Missing \cup Written({<<"1">>, <<"3">>, <<"5">>})
LineYs == Missing \cup Written({<<"1">>, <<"2">>, <<"4">>})
LineStrokes == Missing \cup Written({<<"r","e","d">>, <<"#","0","0","f">>})

LineInputs ==
    {[elem |-> ElementOf("line", <<"x1", "y1", "x2", "y2", "stroke">>,
                         <<xa, ya, xb, yb, st>>),
      rs   |-> CircleCanvas] :
        xa \in LineXs, ya \in LineYs, xb \in LineXs, yb \in LineYs,
        st \in LineStrokes}

CallRenderLine ==
    /\ unit.fn = "renderLine" /\ ~unit.done
    /\ unit' = [unit EXCEPT !.done = TRUE,
                            !.ret = renderLine(unit.arg.elem, unit.arg.rs)]
    /\ UNCHANGED <<calls, goarch>>

InitLine ==
    /\ goarch \in Builds
    /\ calls = <<>>
    /\ unit \in {UnitCall("renderLine", a) : a \in LineInputs}

SpecLine == InitLine /\ [][CallRenderLine]_vars

LineReturned == unit.fn = "renderLine" /\ unit.done

\* the integer value of an attribute of the line; 0 when it is missing
LineInt(name) ==
    IF name \in DOMAIN unit.arg.elem.Attributes
    THEN parseLength(unit.arg.elem.Attributes[name])
    ELSE 0

LineStroke == parseColor(Attr(unit.arg.elem, "stroke"))

\* both endpoints lie inside the canvas and differ
LineInsideCanvas ==
    /\ <<LineInt("x1"), LineInt("y1")>> \in CirclePixels
    /\ <<LineInt("x2"), LineInt("y2")>> \in CirclePixels
    /\ <<LineInt("x1"), LineInt("y1")>> # <<LineInt("x2"), LineInt("y2")>>

\* with all coordinates doubled: the point <<qx, qy>> is farther than k
\* pixels from the segment between <<ax, ay>> and <<bx, by>>
fartherFromSegment(ax, ay, bx, by, qx, qy, k) ==
    IF (qx - ax) * (bx - ax) + (qy - ay) * (by - ay) <= 0
    THEN (qx - ax) * (qx - ax) + (qy - ay) * (qy - ay) > 4 * k * k
    ELSE IF (qx - ax) * (bx - ax) + (qy - ay) * (by - ay)
              >= (bx - ax) * (bx - ax) + (by - ay) * (by - ay)
    THEN (qx - bx) * (qx - bx) + (qy - by) * (qy - by) > 4 * k * k
    ELSE ((bx - ax) * (qy - ay) - (by - ay) * (qx - ax))
           * ((bx - ax) * (qy - ay) - (by - ay) * (qx - ax))
         > 4 * k * k * ((bx - ax) * (bx - ax) + (by - ay) * (by - ay))

\* the centre of pixel p is farther than k pixels from the line's segment
FartherThan(p, k) ==
    fartherFromSegment(2 * LineInt("x1"), 2 * LineInt("y1"),
                       2 * LineInt("x2"), 2 * LineInt("y2"),
                       2 * p[1] + 1, 2 * p[2] + 1, k)

\* C21: rendering a line with an opaque stroke and two distinct endpoints
\* inside the canvas colours some pixel within one pixel of the segment
\* between (x1, y1) and (x2, y2), and no pixel farther than two pixels from
\* that segment changes colour.
C21_LinePixels ==
    (LineReturned /\ LineStroke.A = 255 /\ LineInsideCanvas) =>
        /\ \E p \in CirclePixels :
              /\ ~FartherThan(p, 1)
              /\ At(unit.ret.img, p) # At(unit.arg.rs.img, p)
        /\ \A p \in CirclePixels :
              FartherThan(p, 2) => At(unit.ret.img, p) = At(unit.arg.rs.img, p)

(************************* one shape after another *************************)

MaxShapes == 3

ShapeCircleBlue ==
    ElementOf("circle", <<"cx", "cy", "r", "fill">>,
              <<<<(<<"5">>)>>, <<(<<"2">>)>>, <<(<<"1">>)>>, <<(<<"#","0","0","f">>)>>>>)
ShapeLineRed ==
    ElementOf("line", <<"x1", "y1", "x2", "y2", "stroke">>,
              <<<<(<<"1">>)>>, <<(<<"4">>)>>, <<(<<"5">>)>>, <<(<<"2">>)>>,
                <<(<<"r","e","d">>)>>>>)
ShapeLineBlue ==
    ElementOf("line", <<"x1", "y1", "x2", "y2", "stroke">>,
              <<<<(<<"2">>)>>, <<(<<"1">>)>>, <<(<<"2">>)>>, <<(<<"3">>)>>,
                <<(<<"#","0","0","f">>)>>>>)
ShapeRectBlue ==
    ElementOf("rect", <<"x", "y", "width", "height", "fill">>,
              <<<<(<<"1">>)>>, <<(<<"1">>)>>, <<(<<"4">>)>>, <<(<<"3">>)>>,
                <<(<<"#","0","0","f">>)>>>>)

Shapes == {ShapeCircleBlue, ShapeLineRed, ShapeLineBlue, ShapeRectBlue}

ShapeInputs ==
    {[elem |-> Node("svg", <<>>, <<>>, ss), rs |-> canvas] :
        ss \in StringsUpTo(Shapes, MaxShapes), canvas \in {CircleCanvas, WideCanvas}}

InitShapes ==
    /\ goarch \in Builds
    /\ calls = <<>>
    /\ unit \in {UnitCall("renderElement", a) : a \in ShapeInputs}

SpecShapes == InitShapes /\ [][CallRenderElement]_vars

\* the i-th shape of the document and the operation it added to the image
ShapeAt(i) == unit.arg.elem.Children[i]
ShapeOpIndex(i) == Len(unit.arg.rs.img.Ops) + i
ShapeOp(i) == unit.ret.img.Ops[ShapeOpIndex(i)]

\* the operation the element adds when it is the only shape rendered on a
\* new canvas of the size of the image
OpAlone(elem) ==
    renderElement(elem, canvasOf(Dx(unit.arg.rs.img.Rect), Dy(unit.arg.rs.img.Rect)))
        .img.Ops[2]

\* the operation is the one of the element alone, and the two cover every
\* pixel alike: they hold the same samples, from which the coverage of a
\* pixel is computed, and the pixels around the shapes have the same
\* coverage
SameCoverage(o, alone) ==
    /\ o = alone
    /\ o.floating = alone.floating
    /\ o.buf = alone.buf
    /\ o.mask = alone.mask
    /\ \A p \in CirclePixels : maskAtPixel(o, p) = maskAtPixel(alone, p)

\* the path of the operation is the element's own: for a line the move to
\* (x1, y1) and the line to (x2, y2), for a circle the 34 commands from the
\* move to (cx + r, cy) to the closing of the path
OwnPath(elem, o) ==
    IF elem.Tag = "line"
    THEN o.path = <<[cmd |-> "MoveTo",
                     pt  |-> Vec2(F32(ShapeInt(elem, "x1"), 0),
                                  F32(ShapeInt(elem, "y1"), 0))],
                    [cmd |-> "LineTo",
                     pt  |-> Vec2(F32(ShapeInt(elem, "x2"), 0),
                                  F32(ShapeInt(elem, "y2"), 0))]>>
    ELSE /\ Len(o.path) = 34
         /\ o.path[1] = [cmd |-> "MoveTo",
                         pt  |-> Vec2(F32(ShapeInt(elem, "cx") + ShapeInt(elem, "r"), 0),
                                      F32(ShapeInt(elem, "cy"), 0))]
         /\ \A k \in 2..33 : o.path[k].cmd = "LineTo"
         /\ o.path[34] = [cmd |-> "ClosePath", pt |-> o.path[1].pt]

\* pixels the element leaves uncovered, a path of another shape of Shapes
\* covering at least one of them: left of and above the circle, before the
\* start of the line (the samples after an open path count as covered)
Uncovered(elem) ==
    IF elem = ShapeCircleBlue THEN {<<0, 0>>, <<2, 2>>, <<3, 3>>, <<6, 1>>}
    ELSE IF elem = ShapeLineRed THEN {<<0, 0>>, <<2, 2>>, <<5, 1>>, <<6, 1>>}
    ELSE {<<0, 0>>, <<1, 1>>}

\* C23: the rasterizer carries no path over from one shape to the next:
\* after any sequence of shapes, the operation a circle or a line adds to the
\* image has the element's own path and nothing else, the rasterizer has the
\* size of the canvas, and the coverage of every pixel, with it the pixels the
\* shape paints, is the one of the element rendered alone on a canvas of
\* that size: pixels outside the element stay uncovered whatever was
\* rendered before.
C23_NoPathCarriedOver ==
    RenderReturned =>
        /\ Len(unit.ret.img.Ops) =
              Len(unit.arg.rs.img.Ops) + Len(unit.arg.elem.Children)
        /\ \A i \in DOMAIN unit.arg.elem.Children :
              ShapeAt(i).Tag \in {"circle", "line"} =>
                  /\ OwnPath(ShapeAt(i), ShapeOp(i))
                  /\ ShapeOp(i).w = Dx(unit.arg.rs.img.Rect)
                  /\ ShapeOp(i).h = Dy(unit.arg.rs.img.Rect)
                  /\ ShapeOp(i).c = PaintOf(ShapeAt(i)).c
                  /\ SameCoverage(ShapeOp(i), OpAlone(ShapeAt(i)))
                  /\ \A p \in Uncovered(ShapeAt(i)) :
                        maskAtPixel(ShapeOp(i), p) = 0

\* C23 witness: on the canvas of 513x6 a red line, then a blue circle, then
\* a blue line were rendered in floating point; the circle's path has its own
\* 34 commands and the second line's path its own two, pixel (0, 0), which
\* none of the three paths covers, is still white, and pixel (5, 1) is
\* covered in part by the circle and not at all by the first line
C23_Witness ==
    /\ RenderReturned
    /\ unit.arg.rs = WideCanvas
    /\ unit.arg.elem.Children = <<ShapeLineRed, ShapeCircleBlue, ShapeLineBlue>>
    /\ ShapeOp(2).floating
    /\ Len(ShapeOp(1).path) = 2
    /\ Len(ShapeOp(2).path) = 34
    /\ ShapeOp(2).path[1].pt = Vec2(F32(6, 0), F32(2, 0))
    /\ Len(ShapeOp(3).path) = 2
    /\ ShapeOp(3).path[1].pt = Vec2(F32(2, 0), F32(1, 0))
    /\ unit.ret.rast.path = ShapeOp(3).path
    /\ At(unit.ret.img, <<0, 0>>) = White
    /\ maskAtPixel(ShapeOp(1), <<5, 1>>) = 0
    /\ maskAtPixel(ShapeOp(2), <<5, 1>>) > 0
    /\ maskAtPixel(ShapeOp(2), <<6, 1>>) = 0

====
